---- MODULE Spec2Model ----
(***************************************************************************)
(* Big Two multiplayer server: card engine (src/server/engine.js) and the  *)
(* per-room turn / trick / match state machine                             *)
(* (src/server/roomManager.js).                                            *)
(***************************************************************************)
EXTENDS Integers, Sequences, FiniteSets, TLC

(***************************************************************************)
(* Card model (engine.js)                                                  *)
(***************************************************************************)
RANKS == <<"3", "4", "5", "6", "7", "8", "9", "10", "J", "Q", "K", "A", "2">>

SUITS == <<"D", "C", "H", "S">>

IndexOf(seq, x) == IF \E i \in 1..Len(seq) : seq[i] = x
                   THEN (CHOOSE i \in 1..Len(seq) : seq[i] = x) - 1
                   ELSE -1

SUIT_VALUE(s) == IndexOf(SUITS, s)

RANK_VALUE(r) == IndexOf(RANKS, r)

Card(r, s) == [id |-> r \o s, r |-> r, s |-> s]

Max2(a, b) == IF a >= b THEN a ELSE b

\* negative, zero or positive as a sorts before, with or after b
compareCard(a, b) ==
    IF RANK_VALUE(a.r) # RANK_VALUE(b.r)
    THEN RANK_VALUE(a.r) - RANK_VALUE(b.r)
    ELSE SUIT_VALUE(a.s) - SUIT_VALUE(b.s)

RECURSIVE InsertCard(_, _)
InsertCard(c, sorted) ==
    IF sorted = <<>> THEN <<c>>
    ELSE IF compareCard(c, Head(sorted)) < 0 THEN <<c>> \o sorted
    ELSE <<Head(sorted)>> \o InsertCard(c, Tail(sorted))

RECURSIVE sortHand(_)
sortHand(hand) ==
    IF hand = <<>> THEN <<>>
    ELSE InsertCard(Head(hand), sortHand(Tail(hand)))

Range(seq) == {seq[i] : i \in 1..Len(seq)}

(***************************************************************************)
(* Combination classifier (engine.js classify / classifyFive)              *)
(***************************************************************************)
NullCombo == [type |-> "null", key |-> 0]

sameRank(cards) == \A i \in 1..Len(cards) : cards[i].r = cards[1].r

keyCard(c) == RANK_VALUE(c.r) * 10 + SUIT_VALUE(c.s)

\* mutant: the suits of a pair do not enter its key
keyPair_RankOnly(cards) ==
    RANK_VALUE(cards[1].r) * 10

keyPair(cards) ==
    RANK_VALUE(cards[1].r) * 10 + Max2(SUIT_VALUE(cards[1].s), SUIT_VALUE(cards[2].s))

\* number of cards of rank r in the list
countByRank(cards, r) == Cardinality({i \in 1..Len(cards) : cards[i].r = r})

sequences == <<
    <<"A", "2", "3", "4", "5">>,
    <<"2", "3", "4", "5", "6">>,
    <<"3", "4", "5", "6", "7">>,
    <<"4", "5", "6", "7", "8">>,
    <<"5", "6", "7", "8", "9">>,
    <<"6", "7", "8", "9", "10">>,
    <<"7", "8", "9", "10", "J">>,
    <<"8", "9", "10", "J", "Q">>,
    <<"9", "10", "J", "Q", "K">>,
    <<"10", "J", "Q", "K", "A">> >>

\* the list of ranks sorted ascending by RANK_VALUE, as a function of position
RECURSIVE InsertRank(_, _)
InsertRank(r, sorted) ==
    IF sorted = <<>> THEN <<r>>
    ELSE IF RANK_VALUE(r) < RANK_VALUE(Head(sorted)) THEN <<r>> \o sorted
    ELSE <<Head(sorted)>> \o InsertRank(r, Tail(sorted))

RECURSIVE SortRanks(_)
SortRanks(rs) ==
    IF rs = <<>> THEN <<>> ELSE InsertRank(Head(rs), SortRanks(Tail(rs)))

isSameSet(arr, target) ==
    LET s1 == SortRanks(arr)
        s2 == SortRanks(target)
    IN  \A i \in 1..Len(s1) : i <= Len(s2) /\ s1[i] = s2[i]

\* smallest member of a non-empty set of numbers
MinOf(S) == CHOOSE m \in S : \A x \in S : m <= x

\* SUIT_VALUE of the highest-suited card of rank topRank
topSuit(sorted, topRank) ==
    CHOOSE v \in 0..3 :
        /\ \E i \in 1..Len(sorted) : sorted[i].r = topRank /\ SUIT_VALUE(sorted[i].s) = v
        /\ \A i \in 1..Len(sorted) : sorted[i].r = topRank => SUIT_VALUE(sorted[i].s) <= v

\* the loop over sequences returns at the first window of hits, if there is one
straightAt(sorted, hits) ==
    IF hits = {} THEN [valid |-> FALSE, key |-> 0]
    ELSE [valid |-> TRUE,
          key   |-> (MinOf(hits) - 1) * 10 + topSuit(sorted, sequences[MinOf(hits)][5])]

\* mutant: any five different ranks make a straight
straightRank_AnyFiveRanks(sorted) ==
    IF Cardinality({sorted[i].r : i \in 1..Len(sorted)}) # 5
    THEN [valid |-> FALSE, key |-> 0]
    ELSE [valid |-> TRUE, key |-> 0]

\* [valid, key]; key = window index * 10 + suit of the highest-suited top-rank card
straightRank(sorted) ==
    IF Cardinality({sorted[i].r : i \in 1..Len(sorted)}) # 5
    THEN [valid |-> FALSE, key |-> 0]
    ELSE straightAt(sorted, {idx \in 1..Len(sequences) :
                               isSameSet([i \in 1..Len(sorted) |-> sorted[i].r],
                                         sequences[idx])})

\* the largest per-rank count among the ranks rs, 0 for no rank
maxCount(cards, rs) ==
    IF rs = {} THEN 0
    ELSE CHOOSE n \in 1..Len(cards) :
            /\ \E r \in rs : countByRank(cards, r) = n
            /\ \A r \in rs : countByRank(cards, r) <= n

\* Object.keys(counts).find(r => counts[r] === n)
rankWithCount(cards, n) ==
    CHOOSE r \in {cards[i].r : i \in 1..Len(cards)} : countByRank(cards, r) = n

\* values[0] and values[1]: the two largest per-rank counts
values0(cards) == maxCount(cards, {cards[i].r : i \in 1..Len(cards)})

values1(cards) ==
    maxCount(cards, {cards[i].r : i \in 1..Len(cards)} \ {rankWithCount(cards, values0(cards))})

\* mutant: a straight is looked for before a flush
classifyFiveOf_StraightFirst(sorted, isFlush, straightInfo, v0, v1) ==
    IF straightInfo.valid
    THEN [type |-> "straight", key |-> straightInfo.key]
    ELSE IF v0 = 4
    THEN [type |-> "fourkind", key |-> RANK_VALUE(rankWithCount(sorted, 4))]
    ELSE IF v0 = 3 /\ v1 = 2
    THEN [type |-> "fullhouse", key |-> RANK_VALUE(rankWithCount(sorted, 3))]
    ELSE IF isFlush
    THEN [type |-> "flush",
          key |-> SUIT_VALUE(sorted[5].s) * 100 + RANK_VALUE(sorted[5].r)]
    ELSE NullCombo

classifyFiveOf(sorted, isFlush, straightInfo, v0, v1) ==
    IF isFlush /\ straightInfo.valid
    THEN [type |-> "straightflush", key |-> straightInfo.key]
    ELSE IF v0 = 4
    THEN [type |-> "fourkind", key |-> RANK_VALUE(rankWithCount(sorted, 4))]
    ELSE IF v0 = 3 /\ v1 = 2
    THEN [type |-> "fullhouse", key |-> RANK_VALUE(rankWithCount(sorted, 3))]
    ELSE IF isFlush
    THEN [type |-> "flush",
          key |-> SUIT_VALUE(sorted[5].s) * 100 + RANK_VALUE(sorted[5].r)]
    ELSE IF straightInfo.valid
    THEN [type |-> "straight", key |-> straightInfo.key]
    ELSE NullCombo

classifyFive(sorted) ==
    classifyFiveOf(sorted, \A i \in 1..Len(sorted) : sorted[i].s = sorted[1].s,
                   straightRank(sorted), values0(sorted), values1(sorted))

\* mutant: the cards are taken in the order given, without sortHand
classify_AsGiven(cards) ==
    LET n      == Len(cards)
        sorted == cards
    IN  IF n = 1 THEN [type |-> "single", key |-> keyCard(sorted[1])]
        ELSE IF n = 2 /\ sameRank(sorted) THEN [type |-> "pair", key |-> keyPair(sorted)]
        ELSE IF n = 3 /\ sameRank(sorted)
        THEN [type |-> "triple", key |-> RANK_VALUE(sorted[1].r)]
        ELSE IF n = 5 THEN classifyFive(sorted)
        ELSE NullCombo

classify(cards) ==
    LET n      == Len(cards)
        sorted == sortHand(cards)
    IN  IF n = 1 THEN [type |-> "single", key |-> keyCard(sorted[1])]
        ELSE IF n = 2 /\ sameRank(sorted) THEN [type |-> "pair", key |-> keyPair(sorted)]
        ELSE IF n = 3 /\ sameRank(sorted)
        THEN [type |-> "triple", key |-> RANK_VALUE(sorted[1].r)]
        ELSE IF n = 5 THEN classifyFive(sorted)
        ELSE NullCombo

(***************************************************************************)
(* Combination comparator (engine.js compareCombos / canBeat)              *)
(***************************************************************************)
order == <<"straight", "flush", "fullhouse", "fourkind", "straightflush">>

isFive(c) == c # NullCombo /\ IndexOf(order, c.type) # -1

\* only ever applied to two five-card combinations (the NaN branch is unreachable)
compareCombos(cA, cB) ==
    IF cA.type # cB.type
    THEN IndexOf(order, cA.type) - IndexOf(order, cB.type)
    ELSE cA.key - cB.key

\* mutant: five-card combinations are compared by key alone
canBeat_KeyOnly(prev, next) ==
    IF prev = NullCombo THEN TRUE
    ELSE IF prev.type = "single" /\ next.type = "single" THEN next.key > prev.key
    ELSE IF prev.type = "pair" /\ next.type = "pair" THEN next.key > prev.key
    ELSE IF prev.type = "triple" /\ next.type = "triple" THEN next.key > prev.key
    ELSE IF isFive(prev) /\ isFive(next) THEN next.key > prev.key
    ELSE FALSE

canBeat(prev, next) ==
    IF prev = NullCombo THEN TRUE
    ELSE IF prev.type = "single" /\ next.type = "single" THEN next.key > prev.key
    ELSE IF prev.type = "pair" /\ next.type = "pair" THEN next.key > prev.key
    ELSE IF prev.type = "triple" /\ next.type = "triple" THEN next.key > prev.key
    ELSE IF isFive(prev) /\ isFive(next)
    THEN LET ordCmp == compareCombos(prev, next)
         IN  ordCmp < 0 \/ (ordCmp = 0 /\ next.key > prev.key)
    ELSE FALSE

includes3D(cards) == \E i \in 1..Len(cards) : cards[i].id = "3D"

(***************************************************************************)
(* Automated player (engine.js getAIPlay and its enumeration helpers)      *)
(***************************************************************************)
\* strictly increasing index tuples of length n into a hand of length len,
\* as produced by the nested i < j < k ... loops
IndexTuples(len, n) ==
    {t \in [1..n -> 1..len] : \A a \in 1..n, b \in 1..n : a < b => t[a] < t[b]}

\* loop order of the nested loops: lexicographic on the index tuple
LexLess(t, u) ==
    \E a \in 1..Len(t) : t[a] < u[a] /\ \A b \in 1..(a - 1) : t[b] = u[b]

CardsAt(hand, t) == [a \in 1..Len(t) |-> hand[t[a]]]

\* the array built by pushing the members of tuples in loop order
InLoopOrder(hand, tuples) ==
    [k \in 1..Cardinality(tuples) |->
        CardsAt(hand, CHOOSE t \in tuples :
                        Cardinality({u \in tuples : LexLess(u, t)}) = k - 1)]

findAllPairs(hand) ==
    InLoopOrder(hand, {t \in IndexTuples(Len(hand), 2) : hand[t[1]].r = hand[t[2]].r})

findAllTriples(hand) ==
    InLoopOrder(hand, {t \in IndexTuples(Len(hand), 3) :
                          hand[t[1]].r = hand[t[2]].r /\ hand[t[2]].r = hand[t[3]].r})

findAllFiveCardCombos(hand) ==
    InLoopOrder(hand, {t \in IndexTuples(Len(hand), 5) :
                          LET combo == classify(CardsAt(hand, t))
                          IN  combo # NullCombo /\ isFive(combo)})

\* null is modelled as the empty list
findLowestPair(hand) ==
    LET pairs == findAllPairs(hand)
    IN  IF Len(pairs) > 0 THEN pairs[1] ELSE <<>>

findBestFiveCardCombo(hand) ==
    LET combos == findAllFiveCardCombos(hand)
    IN  IF Len(combos) > 0 THEN combos[1] ELSE <<>>

\* mutant: only single cards are looked for
findValidPlays_SinglesOnly(hand, lastPlayType) ==
    LET Beats(cs) == LET combo == classify(cs)
                     IN  combo # NullCombo /\ canBeat(lastPlayType, combo)
    IN  IF lastPlayType.type = "single"
        THEN SelectSeq([i \in 1..Len(hand) |-> <<hand[i]>>], Beats)
        ELSE <<>>

findValidPlays(hand, lastPlayType) ==
    LET Beats(cs) == LET combo == classify(cs)
                     IN  combo # NullCombo /\ canBeat(lastPlayType, combo)
    IN  IF lastPlayType.type = "single"
        THEN SelectSeq([i \in 1..Len(hand) |-> <<hand[i]>>], Beats)
        ELSE IF lastPlayType.type = "pair"
        THEN SelectSeq(findAllPairs(hand), Beats)
        ELSE IF lastPlayType.type = "triple"
        THEN SelectSeq(findAllTriples(hand), Beats)
        ELSE IF lastPlayType.type \in Range(order)
        THEN SelectSeq(findAllFiveCardCombos(hand), Beats)
        ELSE <<>>

\* The set of lists getAIPlay can return (Math.random() < 0.5 is either way);
\* the empty list stands for null, that is, "pass".
\* hasLast is the truthiness of lastPlay and of lastPlayType.
getAIPlay(hand, hasLast, lastPlayType, allPlayerCounts) ==
    IF Len(hand) = 0 THEN {<<>>}
    ELSE IF ~hasLast
    THEN LET fiveCardCombo == findBestFiveCardCombo(hand)
             lowestPair    == findLowestPair(hand)
         IN  IF Len(fiveCardCombo) = 5 THEN {fiveCardCombo}
             ELSE IF Len(lowestPair) = 2 THEN {lowestPair}
             ELSE {<<hand[1]>>}
    ELSE LET validPlays       == findValidPlays(hand, lastPlayType)
             \* filter((_, idx) => idx !== -1) keeps every entry
             minOpponentCards == MinOf(Range(allPlayerCounts))
         IN  IF Len(validPlays) = 0 THEN {<<>>}
             ELSE IF minOpponentCards <= 3 THEN {validPlays[Len(validPlays)]}
             ELSE IF minOpponentCards <= 5
             THEN {validPlays[(Len(validPlays) \div 2) + 1], validPlays[1]}
             ELSE {validPlays[1]}

(***************************************************************************)
(* Bounds of the model                                                     *)
(***************************************************************************)
\* the deck of the model holds the four suits of these ranks only
DeckRanks == <<"3", "2">>

\* number of distinct values Math.random() takes inside shuffle
ShuffleSeeds == 2

\* longest list of card identifiers a client submits
MaxIds == 3

\* matches dealt in one room
MaxMatches == 3

\* entries of room.history the model keeps (the newest ones)
HistoryKeep == 1

\* plays recorded in room.history over the life of one room
MaxHistory == 4

\* play and pass requests arrive from the seat holding the turn and from the
\* OutOfTurnSeats seats that follow it
OutOfTurnSeats == 1

\* seats of a room filled by bots (the last ones; the others are humans)
NumBots == 1

\* value from which the auto-pass countdown counts down, one tick at a time
\* (the program starts it at 10)
CountdownStart == 2

\* processAITurn timeouts pending at one time
MaxAiTimers == 2

\* cards left in the hand of a seat that loses a match (scoring specification)
CountChoices == {1, 4, 5, 9, 10, 13}

\* cumulative scores of the seats when the last card of a match is played
\* (scoring specification)
ScoreChoices == {0, 61, 99}

\* cumulative scores of the seats when a late match is dealt (late-game specification)
LateScoreChoices == {98, 100}

\* plays the late-game specification follows a room for
LatePlays == 2

\* plays the connection specification follows a room for
ConnPlays == 1

\* disconnections of human seats the connection specification follows
MaxDisconnects == 2

\* cards of the pool the engine specification draws its lists with equal ranks and
\* repeated cards from: the PoolSize lowest cards, 3D 3C 3H 3S 4D 4C
PoolSize == 6

\* suits the lowest card of a five-rank list takes (the other four cards are diamonds)
OddSuits == {"D", "C"}

(***************************************************************************)
(* Room state (roomManager.js startGameFromWaitingRoom)                    *)
(***************************************************************************)
VARIABLES
    isBot,              \* players[i].isBot
    hand,               \* players[i].hand
    passed,             \* players[i].passed
    lastPlay,           \* room.lastPlay: [by, combo, cards] or NoPlay
    lastPlayType,       \* room.lastPlayType
    turn,               \* room.turn
    leader,             \* room.leader
    firstTrick,         \* room.firstTrick
    finished,           \* room.finished
    history,            \* room.history (its newest HistoryKeep entries)
    historyLen,         \* room.history.length
    scores,             \* room.scores
    matchNumber,        \* room.matchNumber
    enforce3D,          \* room.enforce3D
    playedCards,        \* room.playedCards
    autoPassTimer,      \* room.autoPassTimer: exempt seat of the running interval, or -1
    autoPassCountdown,  \* room.autoPassCountdown
    aiTimers,           \* number of pending setTimeout(processAITurn) callbacks
    matchTimers,        \* pending setTimeout(startNewMatch) callbacks: their winnerIdx
    reply,              \* what the last step answered: the outcome of the play, pass or
                        \* reconnection it handled (accepted, or the error message), or
                        \* NoReply after a step that handled none
    notice,             \* the last gameOver / gameAborted broadcast, or NoNotice
    names,              \* players[i].name
    socket,             \* players[i].socket: the person whose connection is bound to the
                        \* seat (persons are numbered by the seat they joined at), -1 for a bot
    disconnected,       \* players[i].disconnected
    playerSessions,     \* playerSessions: the stored sessions, at most one per name
    disconnectTimers,   \* room.disconnectTimers[i]: the disconnection whose grace timeout
                        \* is pending for seat i, or 0
    disconnectCount,    \* number of disconnections so far (they are numbered 1, 2, ...)
    elapsed,            \* number of disconnections that are 60 seconds old or older
    engineArgs,         \* engine only: the arguments handed to the engine function
    engineResult,       \* engine only: what the engine function returned
    waitingRoom,        \* the waiting-room objects created so far: [players, creator]
    waitingRooms,       \* waitingRooms: the waiting rooms still in the map (their numbers)
    socketToWaitingRoom,\* socketToWaitingRoom: socket -> waiting room, or 0
    startTimers,        \* pending setTimeout(startGameFromWaitingRoom): their waiting room
    rooms               \* rooms: the game rooms started from waiting rooms, oldest first

roomVars == <<hand, passed, lastPlay, lastPlayType, turn, leader, firstTrick, finished,
              history, historyLen, scores, matchNumber, enforce3D, playedCards>>

lobbyVars == <<waitingRoom, waitingRooms, socketToWaitingRoom, startTimers, rooms>>

connVars == <<names, socket, disconnected, playerSessions, disconnectTimers, disconnectCount,
              elapsed, lobbyVars>>

engineVars == <<engineArgs, engineResult>>

timerVars == <<autoPassTimer, autoPassCountdown, aiTimers, matchTimers>>

vars == <<isBot, roomVars, timerVars, reply, notice, connVars, engineVars>>

Seats == 0..3

\* sockets that connect to the server
NumSockets == 3

Sockets == 1..NumSockets

\* no waiting room has been created and no game room started
NoLobby ==
    /\ waitingRoom = <<>>
    /\ waitingRooms = {}
    /\ socketToWaitingRoom = [s \in Sockets |-> 0]
    /\ startTimers = <<>>
    /\ rooms = <<>>

NoPlay == [by |-> -1, combo |-> NullCombo, cards |-> <<>>]

NoReply == [op |-> "none", by |-> -1, err |-> "ok"]

NoNotice == [type |-> "none", champion |-> -1, busted |-> {}, to |-> {}]

\* for s of SUITS, for r of RANKS: deck.push({id: r + s, r, s})
makeDeck ==
    [i \in 1..(Len(SUITS) * Len(DeckRanks)) |->
        Card(DeckRanks[((i - 1) % Len(DeckRanks)) + 1], SUITS[((i - 1) \div Len(DeckRanks)) + 1])]

DeckSize == Len(makeDeck)

\* Fisher-Yates from the last position down, Math.random() = k / ShuffleSeeds
RECURSIVE shuffleFrom(_, _, _)
shuffleFrom(arr, i, k) ==
    IF i <= 1 THEN arr
    ELSE LET j == ((k * i) \div ShuffleSeeds) + 1
         IN  shuffleFrom([arr EXCEPT ![i] = arr[j], ![j] = arr[i]], i - 1, k)

shuffle(arr, k) == shuffleFrom(arr, Len(arr), k)

\* hands[i % 4].push(deckShuffled[i]) for every card of the deck, then each hand sorted
dealToFour(deckShuffled) ==
    [p \in Seats |->
        sortHand([m \in 1..(Len(deckShuffled) \div 4) |-> deckShuffled[4 * (m - 1) + p + 1]])]

Ids(cards) == [i \in 1..Len(cards) |-> cards[i].id]

HandIds(p) == Range(Ids(hand[p]))

(***************************************************************************)
(* Highest-unplayed-card detection (roomManager.js checkHighestCardPlayed) *)
(* TRUE when the function returns a notification, FALSE when it returns    *)
(* null.                                                                   *)
(***************************************************************************)
allCards == <<"2S", "2H", "2C", "2D", "AS", "AH", "AC", "AD", "KS", "KH", "KC", "KD",
              "QS", "QH", "QC", "QD", "JS", "JH", "JC", "JD">>

rankOrder == <<"2", "A", "K", "Q", "J", "10", "9", "8", "7", "6", "5", "4", "3">>

\* [suitOrderDesc[i], suitOrderDesc[j]] for i < j, in loop order
possiblePairs == << <<"S", "H">>, <<"S", "C">>, <<"S", "D">>,
                    <<"H", "C">>, <<"H", "D">>, <<"C", "D">> >>

\* index of the first position of seq that satisfies P, or 0
FirstIndex(seq, P(_)) ==
    IF \E i \in 1..Len(seq) : P(seq[i])
    THEN CHOOSE i \in 1..Len(seq) : P(seq[i]) /\ \A j \in 1..(i - 1) : ~P(seq[j])
    ELSE 0

\* mutant: every single 2 is taken for the highest unplayed card
checkHighestCardPlayed_AnyTwo(played, cards, combo) ==
    combo.type = "single" /\ cards[1].r = "2"

checkHighestCardPlayed(played, cards, combo) ==
    IF combo.type = "single"
    THEN LET at == FirstIndex(allCards, LAMBDA id : id \notin played)
         IN  at # 0 /\ allCards[at] = cards[1].id
    ELSE IF combo.type = "pair"
    THEN LET rank  == cards[1].r
             lo    == IF SUIT_VALUE(cards[1].s) <= SUIT_VALUE(cards[2].s)
                      THEN cards[1].s ELSE cards[2].s
             hi    == IF SUIT_VALUE(cards[1].s) <= SUIT_VALUE(cards[2].s)
                      THEN cards[2].s ELSE cards[1].s
             \* all (rank, pair) candidates in loop order
             cand  == [n \in 1..(Len(rankOrder) * Len(possiblePairs)) |->
                          [r  |-> rankOrder[((n - 1) \div Len(possiblePairs)) + 1],
                           s1 |-> possiblePairs[((n - 1) % Len(possiblePairs)) + 1][1],
                           s2 |-> possiblePairs[((n - 1) % Len(possiblePairs)) + 1][2]]]
             at    == FirstIndex(cand, LAMBDA c : (c.r \o c.s1) \notin played
                                                  /\ (c.r \o c.s2) \notin played)
         IN  at # 0 /\ cand[at].r = rank /\ lo = cand[at].s2 /\ hi = cand[at].s1
    ELSE IF combo.type = "triple"
    THEN LET rank == cards[1].r
             at   == FirstIndex(rankOrder,
                        LAMBDA r : Cardinality({i \in 1..Len(SUITS) :
                                                  (r \o SUITS[i]) \notin played}) >= 3)
         IN  at # 0 /\ rankOrder[at] = rank
    ELSE FALSE

(***************************************************************************)
(* Turn / trick helpers (roomManager.js)                                   *)
(***************************************************************************)
\* mutant: the owner of the standing play must be passed too
allOthersPassed_OwnerToo(lp, pssd) ==
    IF lp = NoPlay THEN FALSE
    ELSE \A idx \in Seats : pssd[idx]

\* lp, pssd: the values of room.lastPlay and of the passed flags at the call
allOthersPassed(lp, pssd) ==
    IF lp = NoPlay THEN FALSE
    ELSE \A idx \in Seats : idx = lp.by \/ pssd[idx]

\* mutant: the next seat gets the turn whether it has passed or not
nextAlive_NoSkip(lp, pssd, fromIdx) == (fromIdx + 1) % 4

nextAlive(lp, pssd, fromIdx) ==
    LET Alive(k) == LET i == (fromIdx + k) % 4
                    IN  lp = NoPlay \/ i = lp.by \/ ~pssd[i]
    IN  IF \E k \in 1..4 : Alive(k)
        THEN (fromIdx + (CHOOSE k \in 1..4 : Alive(k) /\ \A m \in 1..(k - 1) : ~Alive(m))) % 4
        ELSE fromIdx

\* mutant: ten cards left are still charged double
penaltyPoints_TenDoubled(cardsLeft) ==
    IF cardsLeft <= 0 THEN 0
    ELSE IF cardsLeft <= 4 THEN cardsLeft
    ELSE IF cardsLeft <= 10 THEN cardsLeft * 2
    ELSE cardsLeft * 3

penaltyPoints(cardsLeft) ==
    IF cardsLeft <= 0 THEN 0
    ELSE IF cardsLeft <= 4 THEN cardsLeft
    ELSE IF cardsLeft <= 9 THEN cardsLeft * 2
    ELSE cardsLeft * 3

\* score limit of finishMatch: a score above it ends the game
BustLimit == 100

\* room.history.push(entry), of which the newest HistoryKeep entries are kept
PushHistory(h, entry) ==
    LET all == Append(h, entry)
    IN  IF Len(all) <= HistoryKeep THEN all
        ELSE SubSeq(all, Len(all) - HistoryKeep + 1, Len(all))

\* mutant: only the first submitted card leaves the hand
RemoveIds_OnlyFirst(hnd, cardIds) == SelectSeq(hnd, LAMBDA c : c.id # cardIds[1])

\* me.hand.filter(c => !cardIds.includes(c.id))
RemoveIds(hnd, cardIds) == SelectSeq(hnd, LAMBDA c : c.id \notin Range(cardIds))

\* cardIds.map(id => hand.find(c => c.id === id)).filter(Boolean)
FindCards(hnd, cardIds) ==
    LET found == SelectSeq(cardIds, LAMBDA id : \E i \in 1..Len(hnd) : hnd[i].id = id)
    IN  [n \in 1..Len(found) |-> hnd[CHOOSE i \in 1..Len(hnd) : hnd[i].id = found[n]]]

(***************************************************************************)
(* endTrick: the owner of the standing play leads the next trick           *)
(***************************************************************************)
\* mutant: the countdown is left running when the trick ends
endTrick_KeepsCountdown(lp, ai) ==
    /\ passed' = [p \in Seats |-> FALSE]
    /\ leader' = lp.by
    /\ turn' = lp.by
    /\ lastPlay' = NoPlay
    /\ lastPlayType' = NullCombo
    /\ autoPassTimer' = autoPassTimer
    /\ autoPassCountdown' = autoPassCountdown
    /\ IF isBot[lp.by]
       THEN ai < MaxAiTimers /\ aiTimers' = ai + 1
       ELSE aiTimers' = ai

\* mutant: the passed flags survive the trick
endTrick_KeepsPassed(lp, ai) ==
    /\ passed' = passed
    /\ leader' = lp.by
    /\ turn' = lp.by
    /\ lastPlay' = NoPlay
    /\ lastPlayType' = NullCombo
    /\ autoPassTimer' = -1
    /\ autoPassCountdown' = 0
    /\ IF isBot[lp.by]
       THEN ai < MaxAiTimers /\ aiTimers' = ai + 1
       ELSE aiTimers' = ai

\* ai: the think-time timeouts pending when the handler runs
endTrick(lp, ai) ==
    /\ passed' = [p \in Seats |-> FALSE]
    /\ leader' = lp.by
    /\ turn' = lp.by
    /\ lastPlay' = NoPlay
    /\ lastPlayType' = NullCombo
    /\ autoPassTimer' = -1
    /\ autoPassCountdown' = 0
    /\ IF isBot[lp.by]
       THEN ai < MaxAiTimers /\ aiTimers' = ai + 1
       ELSE aiTimers' = ai

(***************************************************************************)
(* finishMatch: penalties, game over or the next match scheduled           *)
(***************************************************************************)
\* mutant: the last seat with the lowest score is reported
champion_LastLowest(sc) ==
    CHOOSE i \in Seats : /\ sc[i] = MinOf({sc[j] : j \in Seats})
                         /\ \A j \in (i + 1)..3 : sc[j] # MinOf({sc[k] : k \in Seats})

\* mutant: the first seat with the highest score is reported
champion_Highest(sc) ==
    CHOOSE i \in Seats : /\ \A j \in Seats : sc[j] <= sc[i]
                         /\ \A j \in 0..(i - 1) : sc[j] < sc[i]

\* room.scores.findIndex(s => s === Math.min(...room.scores))
champion(sc) ==
    CHOOSE i \in Seats : /\ sc[i] = MinOf({sc[j] : j \in Seats})
                         /\ \A j \in 0..(i - 1) : sc[j] # MinOf({sc[k] : k \in Seats})

\* the gameOver summary, emitted to every seat that has a socket
broadcastGameOver(sc, busted) ==
    [type |-> "gameOver", champion |-> champion(sc), busted |-> busted,
     to |-> {i \in Seats : ~isBot[i]}]

\* mutant: the seat after the winner is spared the penalty instead of the winner
finishMatch_WrongSeatSpared(hands, winnerIdx) ==
    LET newScores == [i \in Seats |->
                        IF i = (winnerIdx + 1) % 4 THEN scores[i]
                        ELSE scores[i] + penaltyPoints(Len(hands[i]))]
        busted    == {i \in Seats : newScores[i] > BustLimit}
    IN  /\ autoPassTimer' = -1
        /\ autoPassCountdown' = 0
        /\ scores' = newScores
        /\ IF busted # {}
           THEN /\ finished' = TRUE
                /\ notice' = broadcastGameOver(newScores, busted)
                /\ UNCHANGED <<matchNumber, matchTimers>>
           ELSE /\ matchNumber' = matchNumber + 1
                /\ matchTimers' = Append(matchTimers, winnerIdx)
                /\ UNCHANGED <<finished, notice>>

finishMatch(hands, winnerIdx) ==
    LET newScores == [i \in Seats |->
                        IF i = winnerIdx THEN scores[i]
                        ELSE scores[i] + penaltyPoints(Len(hands[i]))]
        busted    == {i \in Seats : newScores[i] > BustLimit}
    IN  /\ autoPassTimer' = -1
        /\ autoPassCountdown' = 0
        /\ scores' = newScores
        /\ IF busted # {}
           THEN /\ finished' = TRUE
                /\ notice' = broadcastGameOver(newScores, busted)
                /\ UNCHANGED <<matchNumber, matchTimers>>
           ELSE /\ matchNumber' = matchNumber + 1
                /\ matchTimers' = Append(matchTimers, winnerIdx)
                /\ UNCHANGED <<finished, notice>>

(***************************************************************************)
(* The accepted part of handlePlay, repeated in processAITurn: apply the   *)
(* move, then end the match, close the trick or advance the turn           *)
(***************************************************************************)
ApplyPlay(meIdx, cardIds, cards, combo, ai) ==
    LET highestCardInfo == checkHighestCardPlayed(playedCards, cards, combo)
        hands1  == [hand EXCEPT ![meIdx] = RemoveIds(hand[meIdx], cardIds)]
        passed1 == [passed EXCEPT ![meIdx] = FALSE]
        lp1     == [by |-> meIdx, combo |-> combo, cards |-> cards]
        nextIdx == nextAlive(lp1, passed1, meIdx)
    IN  /\ historyLen < MaxHistory
        /\ hand' = hands1
        /\ playedCards' = playedCards \cup Range(Ids(cards))
        /\ historyLen' = historyLen + 1
        /\ history' = PushHistory(history, [by |-> meIdx, type |-> combo.type,
                                            count |-> Len(cards), cards |-> cards])
        /\ firstTrick' = FALSE
        /\ UNCHANGED <<isBot, enforce3D>>
        /\ IF Len(hands1[meIdx]) = 0
           THEN /\ finishMatch(hands1, meIdx)
                /\ passed' = passed1
                /\ lastPlay' = lp1
                /\ lastPlayType' = combo
                /\ aiTimers' = ai
                /\ UNCHANGED <<turn, leader>>
           ELSE IF allOthersPassed(lp1, passed1)
           THEN /\ endTrick(lp1, ai)
                /\ UNCHANGED <<finished, notice, scores, matchNumber, matchTimers>>
           ELSE /\ passed' = passed1
                /\ lastPlay' = lp1
                /\ lastPlayType' = combo
                /\ turn' = nextIdx
                /\ autoPassTimer' = IF highestCardInfo THEN meIdx ELSE -1
                /\ autoPassCountdown' = IF highestCardInfo THEN CountdownStart ELSE 0
                /\ IF isBot[nextIdx]
                   THEN ai < MaxAiTimers /\ aiTimers' = ai + 1
                   ELSE aiTimers' = ai
                /\ UNCHANGED <<leader, finished, notice, scores, matchNumber, matchTimers>>

\* mutant: a play need not beat the standing play
PlayError_NoBeatCheck(meIdx, cardIds) ==
    LET cards == FindCards(hand[meIdx], cardIds)
        combo == classify(cards)
    IN  IF finished THEN "Not in game"
        ELSE IF meIdx # turn THEN "Not your turn"
        ELSE IF Len(cards) # Len(cardIds) THEN "You do not hold these cards"
        ELSE IF combo = NullCombo THEN "Invalid combination"
        ELSE IF firstTrick /\ lastPlay = NoPlay /\ enforce3D /\ ~includes3D(cards)
        THEN "First play must include 3D"
        ELSE IF lastPlay # NoPlay /\ Len(cards) # Len(lastPlay.cards)
        THEN "Must match number of cards"
        ELSE "ok"

\* mutant: the first lead of every match must include 3D
PlayError_3DEveryMatch(meIdx, cardIds) ==
    LET cards == FindCards(hand[meIdx], cardIds)
        combo == classify(cards)
    IN  IF finished THEN "Not in game"
        ELSE IF meIdx # turn THEN "Not your turn"
        ELSE IF Len(cards) # Len(cardIds) THEN "You do not hold these cards"
        ELSE IF combo = NullCombo THEN "Invalid combination"
        ELSE IF firstTrick /\ lastPlay = NoPlay /\ ~includes3D(cards)
        THEN "First play must include 3D"
        ELSE IF lastPlay # NoPlay /\ Len(cards) # Len(lastPlay.cards)
        THEN "Must match number of cards"
        ELSE IF lastPlay # NoPlay /\ ~canBeat(lastPlay.combo, combo)
        THEN "Does not beat previous"
        ELSE "ok"

\* the Error message handlePlay throws for this request, or "ok"
PlayError(meIdx, cardIds) ==
    LET cards == FindCards(hand[meIdx], cardIds)
        combo == classify(cards)
    IN  IF finished THEN "Not in game"
        ELSE IF meIdx # turn THEN "Not your turn"
        ELSE IF Len(cards) # Len(cardIds) THEN "You do not hold these cards"
        ELSE IF combo = NullCombo THEN "Invalid combination"
        ELSE IF firstTrick /\ lastPlay = NoPlay /\ enforce3D /\ ~includes3D(cards)
        THEN "First play must include 3D"
        ELSE IF lastPlay # NoPlay /\ Len(cards) # Len(lastPlay.cards)
        THEN "Must match number of cards"
        ELSE IF lastPlay # NoPlay /\ ~canBeat(lastPlay.combo, combo)
        THEN "Does not beat previous"
        ELSE "ok"

\* the identifier lists a client submits: at most MaxIds identifiers, each
\* either of a card of the seat's hand or of one deck card it does not hold,
\* repetitions allowed, in ascending order of position
IdChoices(p) ==
    LET own     == Ids(hand[p])
        foreign == {i \in 1..DeckSize : makeDeck[i].id \notin Range(own)}
    IN  IF foreign = {} THEN own
        ELSE Append(own, makeDeck[CHOOSE i \in foreign : \A j \in foreign : i <= j].id)

IdLists(p) ==
    LET ch == IdChoices(p)
    IN  UNION {{[i \in 1..n |-> ch[t[i]]] :
                   t \in {u \in [1..n -> 1..Len(ch)] :
                            \A a \in 1..(n - 1) : u[a] <= u[a + 1]}} : n \in 0..MaxIds}

HandlePlay(meIdx, cardIds) ==
    LET err   == PlayError(meIdx, cardIds)
        cards == FindCards(hand[meIdx], cardIds)
    IN  /\ ~isBot[meIdx]
        /\ ~disconnected[meIdx]
        /\ UNCHANGED <<connVars, engineVars>>
        /\ reply' = [op |-> "play", by |-> meIdx, err |-> err]
        /\ IF err = "ok"
           THEN ApplyPlay(meIdx, cardIds, cards, classify(cards), aiTimers)
           ELSE UNCHANGED <<isBot, roomVars, timerVars, notice>>

\* mutant: a pass is not checked against the turn
PassError_NoTurnCheck(meIdx) ==
    IF finished THEN "Not in game"
    ELSE IF lastPlay = NoPlay THEN "Cannot pass on a fresh trick"
    ELSE "ok"

\* mutant: a pass is allowed on a fresh trick
PassError_NoFreshCheck(meIdx) ==
    IF finished THEN "Not in game"
    ELSE IF meIdx # turn THEN "Not your turn"
    ELSE "ok"

\* the Error message handlePass throws for this request, or "ok"
PassError(meIdx) ==
    IF finished THEN "Not in game"
    ELSE IF meIdx # turn THEN "Not your turn"
    ELSE IF lastPlay = NoPlay THEN "Cannot pass on a fresh trick"
    ELSE "ok"

\* the accepted part of handlePass, repeated in the pass branch of processAITurn
\* mutant: the turn stays with the seat that passed
ApplyPass_KeepsTurn(meIdx, ai) ==
    /\ UNCHANGED <<isBot, hand, firstTrick, finished, notice, history, historyLen, scores, matchNumber,
                   enforce3D, playedCards, matchTimers>>
    /\ IF allOthersPassed(lastPlay, [passed EXCEPT ![meIdx] = TRUE])
       THEN endTrick(lastPlay, ai)
       ELSE /\ passed' = [passed EXCEPT ![meIdx] = TRUE]
            /\ turn' = meIdx
            /\ aiTimers' = ai
            /\ UNCHANGED <<lastPlay, lastPlayType, leader, autoPassTimer, autoPassCountdown>>

ApplyPass(meIdx, ai) ==
    LET passed1 == [passed EXCEPT ![meIdx] = TRUE]
        nextIdx == nextAlive(lastPlay, passed1, meIdx)
    IN  /\ UNCHANGED <<isBot, hand, firstTrick, finished, notice, history, historyLen, scores, matchNumber,
                       enforce3D, playedCards, matchTimers>>
        /\ IF allOthersPassed(lastPlay, passed1)
           THEN endTrick(lastPlay, ai)
           ELSE /\ passed' = passed1
                /\ turn' = nextIdx
                /\ IF isBot[nextIdx]
                   THEN ai < MaxAiTimers /\ aiTimers' = ai + 1
                   ELSE aiTimers' = ai
                /\ UNCHANGED <<lastPlay, lastPlayType, leader, autoPassTimer,
                               autoPassCountdown>>

HandlePass(meIdx) ==
    LET err == PassError(meIdx)
    IN  /\ ~isBot[meIdx]
        /\ ~disconnected[meIdx]
        /\ UNCHANGED <<connVars, engineVars>>
        /\ reply' = [op |-> "pass", by |-> meIdx, err |-> err]
        /\ IF err = "ok"
           THEN ApplyPass(meIdx, aiTimers)
           ELSE UNCHANGED <<isBot, roomVars, timerVars, notice>>

(***************************************************************************)
(* The interval callback of startAutoPassCountdown: one tick per second,   *)
(* at zero every seat but the exempt one is passed                         *)
(***************************************************************************)
AutoPassTick ==
    /\ autoPassTimer # -1
    \* finishMatch cancels the countdown and the deal it schedules comes after 1200 ms:
    \* a countdown that runs while a deal is pending began less than 1200 ms ago, and
    \* the deal cancels it long before its ten seconds are over
    /\ autoPassCountdown - 1 <= 0 => matchTimers = <<>>
    /\ reply' = NoReply
    /\ UNCHANGED <<connVars, engineVars>>
    /\ UNCHANGED <<isBot, hand, firstTrick, finished, notice, history, historyLen, scores, matchNumber,
                   enforce3D, playedCards, matchTimers>>
    /\ IF autoPassCountdown - 1 <= 0
       THEN LET passed1 == [idx \in Seats |->
                              IF idx # autoPassTimer /\ ~passed[idx] /\ Len(hand[idx]) > 0
                              THEN TRUE ELSE passed[idx]]
            IN  IF allOthersPassed(lastPlay, passed1)
                THEN endTrick(lastPlay, aiTimers)
                ELSE /\ passed' = passed1
                     /\ autoPassTimer' = -1
                     /\ autoPassCountdown' = autoPassCountdown - 1
                     /\ UNCHANGED <<lastPlay, lastPlayType, turn, leader, aiTimers>>
       ELSE /\ autoPassCountdown' = autoPassCountdown - 1
            /\ UNCHANGED <<passed, lastPlay, lastPlayType, turn, leader, autoPassTimer,
                           aiTimers>>

(***************************************************************************)
(* processAITurn, run by a think-time timeout                              *)
(***************************************************************************)
\* the console.error message of a bot decision that is dropped, or "ok"
\* mutant: a bot's first lead is not checked for 3D
AIPlayError_No3DCheck(cards, combo) ==
    IF combo = NullCombo THEN "AI tried to play invalid combination"
    ELSE IF lastPlay # NoPlay /\ Len(cards) # Len(lastPlay.cards)
    THEN "AI tried to play wrong number of cards"
    ELSE IF lastPlay # NoPlay /\ ~canBeat(lastPlay.combo, combo)
    THEN "AI tried to play cards that don't beat previous"
    ELSE "ok"

AIPlayError(cards, combo) ==
    IF combo = NullCombo THEN "AI tried to play invalid combination"
    ELSE IF firstTrick /\ lastPlay = NoPlay /\ enforce3D /\ ~includes3D(cards)
    THEN "AI tried to play without 3D on first trick"
    ELSE IF lastPlay # NoPlay /\ Len(cards) # Len(lastPlay.cards)
    THEN "AI tried to play wrong number of cards"
    ELSE IF lastPlay # NoPlay /\ ~canBeat(lastPlay.combo, combo)
    THEN "AI tried to play cards that don't beat previous"
    ELSE "ok"

processAITurn ==
    /\ aiTimers > 0
    /\ UNCHANGED <<connVars, engineVars>>
    /\ LET currentPlayerIdx == turn
           allPlayerCounts  == [i \in 1..4 |->
                                  IF i - 1 = currentPlayerIdx THEN -1 ELSE Len(hand[i - 1])]
           \* the timeout that fired is no longer pending
           timersLeft       == aiTimers - 1
       IN  IF finished \/ ~isBot[currentPlayerIdx]
           THEN /\ aiTimers' = timersLeft
                /\ reply' = NoReply
                /\ UNCHANGED <<isBot, roomVars, notice, autoPassTimer, autoPassCountdown,
                               matchTimers>>
           ELSE \E aiPlay \in getAIPlay(hand[currentPlayerIdx], lastPlay # NoPlay,
                                        lastPlayType, allPlayerCounts) :
                  IF Len(aiPlay) > 0
                  THEN LET cardIds == Ids(aiPlay)
                           cards   == FindCards(hand[currentPlayerIdx], cardIds)
                           combo   == classify(cards)
                           err     == AIPlayError(cards, combo)
                       IN  /\ reply' = [op |-> "aiplay", by |-> currentPlayerIdx, err |-> err]
                           /\ IF err = "ok"
                              THEN ApplyPlay(currentPlayerIdx, cardIds, cards, combo,
                                             timersLeft)
                              ELSE /\ aiTimers' = timersLeft
                                   /\ UNCHANGED <<isBot, roomVars, notice, autoPassTimer,
                                                  autoPassCountdown, matchTimers>>
                  ELSE LET err == IF lastPlay = NoPlay
                                  THEN "AI tried to pass on fresh trick" ELSE "ok"
                       IN  /\ reply' = [op |-> "aipass", by |-> currentPlayerIdx, err |-> err]
                           /\ IF err = "ok"
                              THEN ApplyPass(currentPlayerIdx, timersLeft)
                              ELSE /\ aiTimers' = timersLeft
                                   /\ UNCHANGED <<isBot, roomVars, notice, autoPassTimer,
                                                  autoPassCountdown, matchTimers>>

(***************************************************************************)
(* startNewMatch: the first deal (run by startGameFromWaitingRoom) and the *)
(* deals run by the timeout that finishMatch sets                          *)
(***************************************************************************)
\* room.players.findIndex(p => p.hand.some(c => c.id === '3D')), 0 when absent
StartIndexOf(hands) ==
    IF \E p \in Seats : "3D" \in Range(Ids(hands[p]))
    THEN CHOOSE p \in Seats : /\ "3D" \in Range(Ids(hands[p]))
                              /\ \A q \in 0..(p - 1) : "3D" \notin Range(Ids(hands[q]))
    ELSE 0

startNewMatch ==
    /\ matchTimers # <<>>
    /\ matchNumber <= MaxMatches
    /\ \E k \in 0..(ShuffleSeeds - 1) :
         LET hands      == dealToFour(shuffle(makeDeck, k))
             startIndex == Head(matchTimers)
         IN  /\ hand' = hands
             /\ passed' = [p \in Seats |-> FALSE]
             /\ turn' = startIndex
             /\ leader' = startIndex
             /\ firstTrick' = TRUE
             /\ lastPlay' = NoPlay
             /\ lastPlayType' = NullCombo
             /\ enforce3D' = FALSE
             /\ playedCards' = {}
             /\ autoPassTimer' = -1
             /\ autoPassCountdown' = 0
             /\ matchTimers' = Tail(matchTimers)
             /\ IF isBot[startIndex]
                THEN aiTimers < MaxAiTimers /\ aiTimers' = aiTimers + 1
                ELSE aiTimers' = aiTimers
             /\ reply' = NoReply
             /\ UNCHANGED <<isBot, finished, notice, history, historyLen, scores, matchNumber,
                           connVars, engineVars>>

\* the room built by startGameFromWaitingRoom after its call startNewMatch(room, null, true):
\* the humans of the waiting room sit first, bots fill the remaining seats
startGameFromWaitingRoom(playerNames, humans, k) ==
    LET hands      == dealToFour(shuffle(makeDeck, k))
        startIndex == StartIndexOf(hands)
    IN  /\ isBot = [p \in Seats |-> p >= humans]
        /\ names = [p \in Seats |-> playerNames[p + 1]]
        /\ socket = [p \in Seats |-> IF isBot[p] THEN -1 ELSE p]
        /\ disconnected = [p \in Seats |-> FALSE]
        /\ playerSessions = {}
        /\ disconnectTimers = [p \in Seats |-> 0]
        /\ disconnectCount = 0
        /\ elapsed = 0
        /\ NoLobby
        /\ hand = hands
        /\ passed = [p \in Seats |-> FALSE]
        /\ lastPlay = NoPlay
        /\ lastPlayType = NullCombo
        /\ turn = startIndex
        /\ leader = startIndex
        /\ firstTrick = TRUE
        /\ finished = FALSE
        /\ history = <<>>
        /\ historyLen = 0
        /\ scores = [p \in Seats |-> 0]
        /\ matchNumber = 1
        /\ enforce3D = TRUE
        /\ playedCards = {}
        /\ autoPassTimer = -1
        /\ autoPassCountdown = 0
        /\ aiTimers = IF isBot[startIndex] THEN 1 ELSE 0
        /\ matchTimers = <<>>
        /\ reply = NoReply
        /\ notice = NoNotice
        /\ engineArgs = <<>>
        /\ engineResult = NullCombo

\* four players with four different names
DistinctNames == <<"Ann", "Bob", "Cy", "Bot 1">>

Init ==
    \E humans \in {4 - NumBots}, k \in 0..(ShuffleSeeds - 1) :
        startGameFromWaitingRoom(DistinctNames, humans, k)

Requesters == {(turn + d) % 4 : d \in 0..OutOfTurnSeats}

Next ==
    \/ \E meIdx \in Requesters : \E cardIds \in IdLists(meIdx) : HandlePlay(meIdx, cardIds)
    \/ \E meIdx \in Requesters : HandlePass(meIdx)
    \/ AutoPassTick
    \/ processAITurn
    \/ startNewMatch

Spec == Init /\ [][Next]_vars

(***************************************************************************)
(* Scoring specification: the last play of a match, from hands of every    *)
(* size and scores near the limit (finishMatch, penaltyPoints)             *)
(***************************************************************************)
\* the n lowest cards of the suit of seat p
SuitRun(p, n) == [i \in 1..n |-> Card(RANKS[i], SUITS[p + 1])]

\* A room late in a game: seat w has one card left and leads a fresh trick, the
\* other seats hold counts[p] cards of their suit, every other card of the 52 has
\* been played. The match counter and the history length are taken low:
\* finishMatch reads neither, and MaxMatches and MaxHistory cap them.
InitScoring ==
    \E w \in Seats, counts \in [Seats -> CountChoices], sc \in [Seats -> ScoreChoices] :
        LET hands == [p \in Seats |-> SuitRun(p, counts[p])]
        IN  /\ counts[w] = 1
            /\ isBot = [p \in Seats |-> p >= 4 - NumBots]
            /\ names = [p \in Seats |-> DistinctNames[p + 1]]
            /\ socket = [p \in Seats |-> IF isBot[p] THEN -1 ELSE p]
            /\ disconnected = [p \in Seats |-> FALSE]
            /\ playerSessions = {}
            /\ disconnectTimers = [p \in Seats |-> 0]
            /\ disconnectCount = 0
            /\ elapsed = 0
            /\ NoLobby
            /\ hand = hands
            /\ passed = [p \in Seats |-> FALSE]
            /\ lastPlay = NoPlay
            /\ lastPlayType = NullCombo
            /\ turn = w
            /\ leader = w
            /\ firstTrick = FALSE
            /\ finished = FALSE
            /\ history = <<[by |-> w, type |-> "single", count |-> 1,
                            cards |-> <<Card(RANKS[2], SUITS[w + 1])>>]>>
            /\ historyLen = 1
            /\ scores = sc
            /\ matchNumber = 2
            /\ enforce3D = FALSE
            /\ playedCards = {RANKS[i] \o SUITS[j] : i \in 1..Len(RANKS), j \in 1..Len(SUITS)}
                                \ UNION {Range(Ids(hands[p])) : p \in Seats}
            /\ autoPassTimer = -1
            /\ autoPassCountdown = 0
            /\ aiTimers = IF isBot[w] THEN 1 ELSE 0
            /\ matchTimers = <<>>
            /\ reply = NoReply
            /\ notice = NoNotice
            /\ engineArgs = <<>>
            /\ engineResult = NullCombo

\* the seat on turn plays its last card: a human by a play request, a bot when its
\* think-time timeout fires
NextScoring ==
    \/ Len(hand[turn]) = 1 /\ HandlePlay(turn, Ids(hand[turn]))
    \/ Len(hand[turn]) = 1 /\ processAITurn

SpecScoring == InitScoring /\ [][NextScoring]_vars

(***************************************************************************)
(* Late-game specification: a room whose scores are near the limit, from   *)
(* the deal of a match on                                                  *)
(***************************************************************************)
\* The room as startNewMatch(room, w, false) leaves it, w having won the match
\* before with a single card. The match counter and the history length are taken
\* from the bounds: the room is followed for LatePlays plays and one more deal.
InitLateGame ==
    \E w \in Seats, sc \in [Seats -> LateScoreChoices], k \in 0..(ShuffleSeeds - 1) :
        /\ isBot = [p \in Seats |-> p >= 4 - NumBots]
        /\ names = [p \in Seats |-> DistinctNames[p + 1]]
        /\ socket = [p \in Seats |-> IF isBot[p] THEN -1 ELSE p]
        /\ disconnected = [p \in Seats |-> FALSE]
        /\ playerSessions = {}
        /\ disconnectTimers = [p \in Seats |-> 0]
        /\ disconnectCount = 0
        /\ elapsed = 0
        /\ NoLobby
        /\ hand = dealToFour(shuffle(makeDeck, k))
        /\ passed = [p \in Seats |-> FALSE]
        /\ lastPlay = NoPlay
        /\ lastPlayType = NullCombo
        /\ turn = w
        /\ leader = w
        /\ firstTrick = TRUE
        /\ finished = FALSE
        /\ history = <<[by |-> w, type |-> "single", count |-> 1,
                        cards |-> <<makeDeck[DeckSize]>>]>>
        /\ historyLen = MaxHistory - LatePlays
        /\ scores = sc
        /\ matchNumber = MaxMatches - 1
        /\ enforce3D = FALSE
        /\ playedCards = {}
        /\ autoPassTimer = -1
        /\ autoPassCountdown = 0
        /\ aiTimers = IF isBot[w] THEN 1 ELSE 0
        /\ matchTimers = <<>>
        /\ reply = NoReply
        /\ notice = NoNotice
        /\ engineArgs = <<>>
        /\ engineResult = NullCombo

SpecLateGame == InitLateGame /\ [][Next]_vars

(***************************************************************************)
(* Engine specification: classify called on lists of 1, 2, 3 and 5 cards   *)
(* in every order                                                          *)
(***************************************************************************)
\* the manager before any room exists
NoRoom ==
    /\ isBot = [p \in Seats |-> FALSE]
    /\ names = [p \in Seats |-> ""]
    /\ socket = [p \in Seats |-> IF isBot[p] THEN -1 ELSE p]
    /\ disconnected = [p \in Seats |-> FALSE]
    /\ playerSessions = {}
    /\ disconnectTimers = [p \in Seats |-> 0]
    /\ disconnectCount = 0
    /\ elapsed = 0
    /\ NoLobby
    /\ hand = [p \in Seats |-> <<>>]
    /\ passed = [p \in Seats |-> FALSE]
    /\ lastPlay = NoPlay
    /\ lastPlayType = NullCombo
    /\ turn = 0
    /\ leader = 0
    /\ firstTrick = TRUE
    /\ finished = TRUE
    /\ history = <<>>
    /\ historyLen = 0
    /\ scores = [p \in Seats |-> 0]
    /\ matchNumber = 1
    /\ enforce3D = TRUE
    /\ playedCards = {}
    /\ autoPassTimer = -1
    /\ autoPassCountdown = 0
    /\ aiTimers = 0
    /\ matchTimers = <<>>
    /\ reply = NoReply
    /\ notice = NoNotice

\* the i-th smallest member of a set of numbers
NthOf(S, i) == CHOOSE x \in S : Cardinality({y \in S : y < x}) = i - 1

\* five cards of five different ranks, in hand order: every choice of five ranks,
\* all diamonds or with the lowest card of another suit
FiveRankLists ==
    {[i \in 1..5 |-> Card(RANKS[NthOf(S, i)], IF i = 1 THEN s ELSE "D")] :
        S \in {T \in SUBSET (1..13) : Cardinality(T) = 5}, s \in OddSuits}

PoolCard(i) == Card(RANKS[((i - 1) \div 4) + 1], SUITS[((i - 1) % 4) + 1])

\* lists of 1, 2, 3 and 5 cards of the pool, in hand order, a card possibly repeated
PoolLists ==
    UNION {{[i \in 1..n |-> PoolCard(t[i])] :
               t \in {u \in [1..n -> 1..PoolSize] :
                        \A a \in 1..(n - 1) : u[a] <= u[a + 1]}} : n \in {1, 2, 3, 5}}

\* the state after the call classify(cards)
InitEngine ==
    \E cards \in FiveRankLists \cup PoolLists :
        /\ NoRoom
        /\ engineArgs = cards
        /\ engineResult = classify(cards)

\* the list with the cards at i and i + 1 exchanged
SwapAt(seq, i) ==
    [k \in 1..Len(seq) |-> IF k = i THEN seq[i + 1] ELSE IF k = i + 1 THEN seq[i] ELSE seq[k]]

\* classify is called on the same cards with two neighbours exchanged; repeated,
\* this gives every order of the list (followed for the lists of the pool)
ClassifyReordered ==
    \E i \in 1..(Len(engineArgs) - 1) :
        /\ Range(engineArgs) \subseteq {PoolCard(k) : k \in 1..PoolSize}
        /\ engineArgs' = SwapAt(engineArgs, i)
        /\ engineResult' = classify(engineArgs')
        /\ UNCHANGED <<isBot, roomVars, timerVars, reply, notice, connVars>>

\* classify is called on the same cards, the first one moved to the end
ClassifyRotated ==
    /\ Len(engineArgs) > 1
    /\ engineArgs' = Append(Tail(engineArgs), Head(engineArgs))
    /\ engineResult' = classify(engineArgs')
    /\ UNCHANGED <<isBot, roomVars, timerVars, reply, notice, connVars>>

\* classify is called on the same cards in reverse order
ClassifyReversed ==
    /\ Len(engineArgs) > 1
    /\ engineArgs' = [k \in 1..Len(engineArgs) |-> engineArgs[Len(engineArgs) + 1 - k]]
    /\ engineResult' = classify(engineArgs')
    /\ UNCHANGED <<isBot, roomVars, timerVars, reply, notice, connVars>>

NextEngine ==
    \/ ClassifyReordered
    \/ ClassifyRotated
    \/ ClassifyReversed

SpecEngine == InitEngine /\ [][NextEngine]_vars

(***************************************************************************)
(* Comparison specification: canBeat called on the combinations of three   *)
(* legal plays of one size                                                 *)
(***************************************************************************)
\* the cards of the ranks rs in the suits ss, position by position
CardsOf(rs, ss) == [i \in 1..Len(rs) |-> Card(rs[i], ss[i])]

SinglePlays ==
    {CardsOf(<<"3">>, <<"D">>), CardsOf(<<"3">>, <<"S">>), CardsOf(<<"4">>, <<"D">>),
     CardsOf(<<"2">>, <<"S">>)}

PairPlays ==
    {CardsOf(<<"3", "3">>, <<"D", "C">>), CardsOf(<<"3", "3">>, <<"H", "S">>),
     CardsOf(<<"4", "4">>, <<"D", "C">>), CardsOf(<<"2", "2">>, <<"H", "S">>)}

TriplePlays ==
    {CardsOf(<<"3", "3", "3">>, <<"D", "C", "H">>), CardsOf(<<"4", "4", "4">>, <<"D", "C", "S">>),
     CardsOf(<<"2", "2", "2">>, <<"D", "C", "H">>)}

FivePlays ==
    {CardsOf(<<"3", "4", "5", "A", "2">>, <<"D", "C", "H", "D", "D">>),
     CardsOf(<<"10", "J", "Q", "K", "A">>, <<"D", "C", "H", "D", "S">>),
     CardsOf(<<"3", "4", "5", "6", "8">>, <<"D", "D", "D", "D", "D">>),
     CardsOf(<<"4", "8", "9", "K", "2">>, <<"S", "S", "S", "S", "S">>),
     CardsOf(<<"3", "3", "3", "4", "4">>, <<"D", "C", "H", "D", "C">>),
     CardsOf(<<"3", "3", "9", "9", "9">>, <<"D", "C", "D", "C", "H">>),
     CardsOf(<<"3", "3", "2", "2", "2">>, <<"D", "C", "D", "C", "H">>),
     CardsOf(<<"3", "4", "4", "4", "4">>, <<"D", "D", "C", "H", "S">>),
     CardsOf(<<"3", "2", "2", "2", "2">>, <<"D", "D", "C", "H", "S">>),
     CardsOf(<<"3", "4", "5", "A", "2">>, <<"D", "D", "D", "D", "D">>),
     CardsOf(<<"10", "J", "Q", "K", "A">>, <<"S", "S", "S", "S", "S">>)}

\* no call of canBeat made yet
InitBeat ==
    \E plays \in {SinglePlays, PairPlays, TriplePlays, FivePlays} :
        \E a \in plays, b \in plays, c \in plays :
            /\ NoRoom
            /\ engineArgs = <<a, b, c>>
            /\ engineResult = NullCombo

\* the three plays are classified and canBeat(prev, next) is called on the pairs of
\* combinations: xy is canBeat(x, y), and so on
CanBeatCalls ==
    /\ engineResult = NullCombo
    /\ LET x == classify(engineArgs[1])
           y == classify(engineArgs[2])
           z == classify(engineArgs[3])
       IN  engineResult' = [x |-> x, y |-> y, z |-> z,
                            xx |-> canBeat(x, x), xy |-> canBeat(x, y), yx |-> canBeat(y, x),
                            yz |-> canBeat(y, z), xz |-> canBeat(x, z)]
    /\ UNCHANGED <<isBot, roomVars, timerVars, reply, notice, connVars, engineArgs>>

NextBeat == CanBeatCalls

SpecBeat == InitBeat /\ [][NextBeat]_vars

(***************************************************************************)
(* Two plays made of different cards of one deck, classified and compared  *)
(***************************************************************************)
DeckRankLists ==
    {<<"A", "2", "3", "4", "5">>, <<"3", "4", "5", "6", "7">>, <<"10", "J", "Q", "K", "A">>,
     <<"3", "5", "7", "9", "J">>, <<"4", "6", "8", "10", "Q">>, <<"3", "4", "5", "6", "8">>,
     <<"3", "3", "3", "4", "4">>, <<"4", "4", "4", "3", "3">>, <<"9", "9", "9", "5", "5">>,
     <<"3", "3", "3", "3", "4">>, <<"5", "5", "5", "5", "4">>}

DeckSuitLists ==
    {<<"D", "D", "D", "D", "D">>, <<"S", "S", "S", "S", "S">>, <<"C", "C", "C", "C", "H">>,
     <<"H", "H", "H", "H", "C">>, <<"D", "C", "H", "D", "C">>, <<"H", "S", "C", "H", "S">>,
     <<"D", "C", "H", "S", "D">>, <<"D", "C", "H", "S", "C">>}

\* plays of one, two, three and five different cards of the deck
DeckPlays ==
    {h \in {CardsOf(SubSeq(rs, 1, n), SubSeq(ss, 1, n)) :
               rs \in DeckRankLists, ss \in DeckSuitLists, n \in {1, 2, 3, 5}} :
        Cardinality(Range(h)) = Len(h)}

\* two plays with no card in common, not yet classified
InitDisjoint ==
    \E a \in DeckPlays, b \in DeckPlays :
        /\ Range(a) \cap Range(b) = {}
        /\ NoRoom
        /\ engineArgs = <<a, b>>
        /\ engineResult = NullCombo

\* both plays are classified and, when both are legal, canBeat is called each way
CompareDisjoint ==
    /\ engineResult = NullCombo
    /\ classify(engineArgs[1]) # NullCombo
    /\ classify(engineArgs[2]) # NullCombo
    /\ engineResult' = [x |-> classify(engineArgs[1]), y |-> classify(engineArgs[2]),
                        xy |-> canBeat(classify(engineArgs[1]), classify(engineArgs[2])),
                        yx |-> canBeat(classify(engineArgs[2]), classify(engineArgs[1]))]
    /\ UNCHANGED <<isBot, roomVars, timerVars, reply, notice, connVars, engineArgs>>

NextDisjoint == CompareDisjoint

SpecDisjoint == InitDisjoint /\ [][NextDisjoint]_vars

(***************************************************************************)
(* Bot decisions: getAIPlay called for a bot's hand, the standing play and *)
(* the hand sizes around the table                                         *)
(***************************************************************************)
\* hands as the room keeps them, lowest card first
BotHands ==
    {CardsOf(<<"3", "4", "5", "6", "7", "7">>, <<"D", "D", "D", "D", "D", "S">>),
     CardsOf(<<"3", "3", "4", "4", "5">>, <<"D", "C", "H", "S", "D">>),
     CardsOf(<<"4", "5", "9", "K">>, <<"C", "D", "H", "S">>),
     CardsOf(<<"3", "3", "3", "9", "9", "2">>, <<"C", "H", "S", "D", "C", "S">>),
     CardsOf(<<"5", "5", "5", "5", "6", "6">>, <<"D", "C", "H", "S", "D", "C">>),
     CardsOf(<<"4", "6", "8", "10", "Q", "Q">>, <<"D", "D", "D", "D", "D", "S">>),
     CardsOf(<<"2">>, <<"S">>),
     CardsOf(<<"3", "4", "4">>, <<"D", "C", "H">>),
     CardsOf(<<"3", "5", "6", "7", "8", "9">>, <<"D", "C", "C", "C", "C", "C">>)}

\* the cards of room.lastPlay; the empty list is a fresh trick
StandingPlays ==
    {<<>>,
     CardsOf(<<"4">>, <<"H">>), CardsOf(<<"A">>, <<"S">>), CardsOf(<<"2">>, <<"S">>),
     CardsOf(<<"3", "3">>, <<"D", "S">>), CardsOf(<<"J", "J">>, <<"C", "H">>),
     CardsOf(<<"2", "2">>, <<"H", "S">>),
     CardsOf(<<"4", "4", "4">>, <<"D", "C", "S">>), CardsOf(<<"8", "8", "8">>, <<"D", "C", "H">>),
     CardsOf(<<"3", "4", "5", "6", "7">>, <<"H", "S", "C", "C", "C">>),
     CardsOf(<<"8", "8", "8", "J", "J">>, <<"D", "C", "H", "D", "C">>),
     CardsOf(<<"10", "J", "Q", "K", "A">>, <<"S", "S", "S", "S", "S">>)}

\* allPlayerCounts of processAITurn: -1 at the bot's seat, hand sizes elsewhere
TableCounts ==
    {<<-1, 2, 8, 9>>, <<-1, 4, 7, 9>>, <<-1, 5, 5, 13>>, <<-1, 6, 7, 8>>, <<7, 6, -1, 9>>}

\* a bot's turn: its hand, a standing play of other cards, the table's counts
InitBot ==
    \E h \in BotHands, lp \in StandingPlays, counts \in TableCounts :
        /\ Range(h) \cap Range(lp) = {}
        /\ NoRoom
        /\ engineArgs = [hand |-> h, lastPlay |-> lp, allPlayerCounts |-> counts]
        /\ engineResult = NullCombo

\* getAIPlay(hand, lastPlay, lastPlayType, allPlayerCounts) returns; an empty play
\* is the answer null
GetAIPlayCall ==
    /\ engineResult = NullCombo
    /\ \E aiPlay \in getAIPlay(engineArgs.hand, Len(engineArgs.lastPlay) > 0,
                                IF Len(engineArgs.lastPlay) > 0
                                THEN classify(engineArgs.lastPlay) ELSE NullCombo,
                                engineArgs.allPlayerCounts) :
          engineResult' = [play |-> aiPlay]
    /\ UNCHANGED <<isBot, roomVars, timerVars, reply, notice, connVars, engineArgs>>

NextBot == GetAIPlayCall

SpecBot == InitBot /\ [][NextBot]_vars

(***************************************************************************)
(* Connections: handleDisconnect, its 60 s grace timeout, handleReconnect  *)
(***************************************************************************)
\* Time is counted in grace periods: disconnection number n (disconnectCount) gets
\* disconnectTime n, and elapsed is the number of disconnections whose 60 s have
\* passed (all grace periods have the same length, so they end in the order they
\* began). disconnectTimers[p] is the disconnectTime of the pending timeout of
\* seat p, 0 for none.
\* the room exists in rooms: broadcastGameOver and the grace timeout both set
\* room.finished and delete the room
RoomExists == ~finished

\* playerSessions.set(`${player.name}:${roomId}`, ...): one entry per name of the room
SessionsSet(sessions, name, idx, time) ==
    {s \in sessions : s.playerName # name}
        \cup {[playerName |-> name, playerIndex |-> idx, disconnectTime |-> time]}

\* playerSessions.delete(`${name}:${roomId}`)
SessionsDelete(sessions, name) == {s \in sessions : s.playerName # name}

\* the seat also loses its turn (not what the code does)
handleDisconnect_AlsoPasses(p) ==
    /\ ~isBot[p]
    /\ RoomExists
    /\ ~disconnected[p]
    /\ disconnectCount < MaxDisconnects
    /\ disconnected' = [disconnected EXCEPT ![p] = TRUE]
    /\ disconnectCount' = disconnectCount + 1
    /\ playerSessions' = SessionsSet(playerSessions, names[p], p, disconnectCount + 1)
    /\ disconnectTimers' = [disconnectTimers EXCEPT ![p] = disconnectCount + 1]
    /\ reply' = [op |-> "disconnect", by |-> p, err |-> "ok"]
    /\ passed' = [passed EXCEPT ![p] = TRUE]
    /\ turn' = IF turn = p THEN nextAlive(lastPlay, passed', p) ELSE turn
    /\ UNCHANGED <<isBot, hand, lastPlay, lastPlayType, leader, firstTrick, finished,
                   history, historyLen, scores, matchNumber, enforce3D, playedCards,
                   timerVars, notice, names, socket, elapsed, lobbyVars, engineVars>>

\* handleDisconnect(socket) for the socket of seat p of an active room
handleDisconnect(p) ==
    /\ ~isBot[p]
    /\ RoomExists
    /\ ~disconnected[p]
    /\ disconnectCount < MaxDisconnects
    /\ disconnected' = [disconnected EXCEPT ![p] = TRUE]
    /\ disconnectCount' = disconnectCount + 1
    /\ playerSessions' = SessionsSet(playerSessions, names[p], p, disconnectCount + 1)
    /\ disconnectTimers' = [disconnectTimers EXCEPT ![p] = disconnectCount + 1]
    /\ reply' = [op |-> "disconnect", by |-> p, err |-> "ok"]
    /\ UNCHANGED <<isBot, roomVars, timerVars, notice, names, socket, elapsed, lobbyVars,
                   engineVars>>

\* the clock reaches the end of the oldest grace period still running
GraceDeadline ==
    /\ elapsed < disconnectCount
    /\ elapsed' = elapsed + 1
    /\ reply' = NoReply
    /\ UNCHANGED <<isBot, roomVars, timerVars, notice, names, socket, disconnected, playerSessions,
                   disconnectTimers, disconnectCount, lobbyVars, engineVars>>

\* mutant: the timeout aborts only when the seat holds the turn
disconnectTimer_OnlyOnTurn(p) ==
    /\ disconnectTimers[p] \in 1..elapsed
    /\ \A q \in Seats : disconnectTimers[q] # 0 => disconnectTimers[p] <= disconnectTimers[q]
    /\ disconnectTimers' = [disconnectTimers EXCEPT ![p] = 0]
    /\ reply' = [op |-> "graceTimeout", by |-> p, err |-> "ok"]
    /\ IF RoomExists /\ disconnected[p] /\ turn = p
       THEN /\ finished' = TRUE
            /\ notice' = [type |-> "gameAborted", champion |-> -1, busted |-> {},
                          to |-> {q \in Seats : ~isBot[q] /\ ~disconnected[q]}]
            /\ playerSessions' = SessionsDelete(playerSessions, names[p])
            /\ autoPassTimer' = -1
       ELSE UNCHANGED <<finished, notice, playerSessions, autoPassTimer>>
    /\ UNCHANGED <<isBot, hand, passed, lastPlay, lastPlayType, turn, leader, firstTrick,
                   history, historyLen, scores, matchNumber, enforce3D, playedCards,
                   autoPassCountdown, aiTimers, matchTimers,
                   names, socket, disconnected, disconnectCount, elapsed, lobbyVars,
                   engineVars>>

\* the callback of the setTimeout(..., 60000) of handleDisconnect for seat p;
\* timeouts of equal length run in the order they were set
disconnectTimer(p) ==
    /\ disconnectTimers[p] \in 1..elapsed
    /\ \A q \in Seats : disconnectTimers[q] # 0 => disconnectTimers[p] <= disconnectTimers[q]
    /\ disconnectTimers' = [disconnectTimers EXCEPT ![p] = 0]
    /\ reply' = [op |-> "graceTimeout", by |-> p, err |-> "ok"]
    /\ IF RoomExists /\ disconnected[p]
       THEN /\ finished' = TRUE
            /\ notice' = [type |-> "gameAborted", champion |-> -1, busted |-> {},
                          to |-> {q \in Seats : ~isBot[q] /\ ~disconnected[q]}]
            /\ playerSessions' = SessionsDelete(playerSessions, names[p])
            /\ autoPassTimer' = -1
       ELSE UNCHANGED <<finished, notice, playerSessions, autoPassTimer>>
    /\ UNCHANGED <<isBot, hand, passed, lastPlay, lastPlayType, turn, leader, firstTrick,
                   history, historyLen, scores, matchNumber, enforce3D, playedCards,
                   autoPassCountdown, aiTimers, matchTimers,
                   names, socket, disconnected, disconnectCount, elapsed, lobbyVars,
                   engineVars>>

\* sessions are never looked at for their age (not what the code does)
handleReconnect_NoExpiry(p) ==
    LET name  == names[p]
        found == {s \in playerSessions : s.playerName = name}
    IN  /\ ~isBot[p]
        /\ disconnected[p]
        /\ IF found = {}
           THEN /\ reply' = [op |-> "reconnect", by |-> p,
                             err |-> "No active game found to reconnect to"]
                /\ UNCHANGED <<playerSessions, socket, disconnected, disconnectTimers>>
           ELSE LET playerIdx == (CHOOSE s \in found : TRUE).playerIndex
                IN  /\ reply' = [op |-> "reconnect", by |-> p, err |-> "ok"]
                    /\ disconnectTimers' = [disconnectTimers EXCEPT ![playerIdx] = 0]
                    /\ socket' = [socket EXCEPT ![playerIdx] = p]
                    /\ disconnected' = [disconnected EXCEPT ![playerIdx] = FALSE]
                    /\ playerSessions' = SessionsDelete(playerSessions, name)
        /\ UNCHANGED <<isBot, roomVars, timerVars, notice, names, disconnectCount, elapsed,
                       lobbyVars, engineVars>>

\* handleReconnect(socket, name) on a new socket of the person whose seat p is
\* disconnected, and who gives the name it joined with
handleReconnect(p) ==
    LET name    == names[p]
        found   == {s \in playerSessions : s.playerName = name /\ s.disconnectTime > elapsed}
        expired == {s \in playerSessions : s.playerName = name /\ s.disconnectTime <= elapsed}
    IN  /\ ~isBot[p]
        /\ disconnected[p]
        /\ IF found = {}
           THEN /\ reply' = [op |-> "reconnect", by |-> p,
                             err |-> "No active game found to reconnect to"]
                /\ playerSessions' = playerSessions \ expired
                /\ UNCHANGED <<socket, disconnected, disconnectTimers>>
           ELSE LET playerIdx == (CHOOSE s \in found : TRUE).playerIndex
                IN  IF ~RoomExists
                    THEN /\ reply' = [op |-> "reconnect", by |-> p, err |-> "Game has ended"]
                         /\ playerSessions' = SessionsDelete(playerSessions, name)
                         /\ UNCHANGED <<socket, disconnected, disconnectTimers>>
                    ELSE IF ~disconnected[playerIdx]
                    THEN /\ reply' = [op |-> "reconnect", by |-> p,
                                      err |-> "Player slot already occupied"]
                         /\ UNCHANGED <<playerSessions, socket, disconnected, disconnectTimers>>
                    ELSE /\ reply' = [op |-> "reconnect", by |-> p, err |-> "ok"]
                         /\ disconnectTimers' = [disconnectTimers EXCEPT ![playerIdx] = 0]
                         /\ socket' = [socket EXCEPT ![playerIdx] = p]
                         /\ disconnected' = [disconnected EXCEPT ![playerIdx] = FALSE]
                         /\ playerSessions' = SessionsDelete(playerSessions, name)
        /\ UNCHANGED <<isBot, roomVars, timerVars, notice, names, disconnectCount, elapsed,
                       lobbyVars, engineVars>>

\* handleReconnect(socket, name) on the socket of a person seated and connected at seat q,
\* who gives the name of another seat r: the handler never looks at the seat the socket
\* already has
handleReconnectSeated(q, r) ==
    LET name    == names[r]
        found   == {s \in playerSessions : s.playerName = name /\ s.disconnectTime > elapsed}
        expired == {s \in playerSessions : s.playerName = name /\ s.disconnectTime <= elapsed}
    IN  /\ ~isBot[q] /\ ~disconnected[q] /\ socket[q] = q
        /\ r # q /\ ~isBot[r]
        /\ IF found = {}
           THEN /\ reply' = [op |-> "takeover", by |-> q,
                             err |-> "No active game found to reconnect to"]
                /\ playerSessions' = playerSessions \ expired
                /\ UNCHANGED <<socket, disconnected, disconnectTimers>>
           ELSE LET playerIdx == (CHOOSE s \in found : TRUE).playerIndex
                IN  IF ~RoomExists
                    THEN /\ reply' = [op |-> "takeover", by |-> q, err |-> "Game has ended"]
                         /\ playerSessions' = SessionsDelete(playerSessions, name)
                         /\ UNCHANGED <<socket, disconnected, disconnectTimers>>
                    ELSE IF ~disconnected[playerIdx]
                    THEN /\ reply' = [op |-> "takeover", by |-> q,
                                      err |-> "Player slot already occupied"]
                         /\ UNCHANGED <<playerSessions, socket, disconnected, disconnectTimers>>
                    ELSE /\ reply' = [op |-> "takeover", by |-> q, err |-> "ok"]
                         /\ disconnectTimers' = [disconnectTimers EXCEPT ![playerIdx] = 0]
                         /\ socket' = [socket EXCEPT ![playerIdx] = q]
                         /\ disconnected' = [disconnected EXCEPT ![playerIdx] = FALSE]
                         /\ playerSessions' = SessionsDelete(playerSessions, name)
        /\ UNCHANGED <<isBot, roomVars, timerVars, notice, names, disconnectCount, elapsed,
                       lobbyVars, engineVars>>

\* seats that open the match of the connection specification
ConnOpeners == {0, 2}

\* two humans joined without a name and both got the default name
SharedNames == <<"Player", "Player", "Cy", "Bot 1">>

\* The room as startNewMatch(room, w, false) leaves it after w won match 1 with a
\* pair; followed for ConnPlays plays.
InitConn ==
    \E w \in ConnOpeners, playerNames \in {DistinctNames, SharedNames} :
        /\ isBot = [p \in Seats |-> p >= 4 - NumBots]
        /\ names = [p \in Seats |-> playerNames[p + 1]]
        /\ socket = [p \in Seats |-> IF isBot[p] THEN -1 ELSE p]
        /\ disconnected = [p \in Seats |-> FALSE]
        /\ playerSessions = {}
        /\ disconnectTimers = [p \in Seats |-> 0]
        /\ disconnectCount = 0
        /\ elapsed = 0
        /\ NoLobby
        /\ hand = dealToFour(shuffle(makeDeck, 0))
        /\ passed = [p \in Seats |-> FALSE]
        /\ lastPlay = NoPlay
        /\ lastPlayType = NullCombo
        /\ turn = w
        /\ leader = w
        /\ firstTrick = TRUE
        /\ finished = FALSE
        /\ history = <<[by |-> w, type |-> "pair", count |-> 2,
                        cards |-> <<makeDeck[1], makeDeck[2]>>]>>
        /\ historyLen = MaxHistory - ConnPlays
        /\ scores = [p \in Seats |-> IF p = w THEN 0 ELSE 2]
        /\ matchNumber = MaxMatches - 1
        /\ enforce3D = FALSE
        /\ playedCards = {}
        /\ autoPassTimer = -1
        /\ autoPassCountdown = 0
        /\ aiTimers = IF isBot[w] THEN 1 ELSE 0
        /\ matchTimers = <<>>
        /\ reply = NoReply
        /\ notice = NoNotice
        /\ engineArgs = <<>>
        /\ engineResult = NullCombo

\* the submissions of cards the seat holds, no identifier twice
HeldIdLists(p) ==
    LET own == Ids(hand[p])
    IN  UNION {{[i \in 1..n |-> own[t[i]]] :
                   t \in {u \in [1..n -> 1..Len(own)] :
                            \A a \in 1..(n - 1) : u[a] < u[a + 1]}} : n \in 1..MaxIds}

NextConn ==
    \/ \E meIdx \in Requesters : \E cardIds \in HeldIdLists(meIdx) : HandlePlay(meIdx, cardIds)
    \/ \E meIdx \in Requesters : HandlePass(meIdx)
    \/ AutoPassTick
    \/ processAITurn
    \/ startNewMatch
    \/ \E p \in Seats : handleDisconnect(p)
    \/ \E p \in Seats : handleReconnect(p)
    \/ GraceDeadline
    \/ \E p \in Seats : disconnectTimer(p)

SpecConn == InitConn /\ [][NextConn]_vars

\* connections only: sockets close, persons ask to be reconnected, with their own name
\* or from a seat they hold with the name of another seat, and grace periods end
NextRebind ==
    \/ \E p \in Seats : handleDisconnect(p)
    \/ \E p \in Seats : handleReconnect(p)
    \/ \E q, r \in Seats : handleReconnectSeated(q, r)
    \/ GraceDeadline
    \/ \E p \in Seats : disconnectTimer(p)

SpecRebind == InitConn /\ [][NextRebind]_vars

(***************************************************************************)
(* The payload of the 'state' message: roomStateFor(room, viewerIdx), the  *)
(* room being the current one with the hands given                         *)
(***************************************************************************)
\* mutant: the payload carries every hand
roomStateFor_AllHands(hands, viewerIdx) ==
    [you          |-> viewerIdx,
     names        |-> names,
     hand         |-> sortHand(hands[viewerIdx]),
     counts       |-> hands,
     passed       |-> passed,
     disconnected |-> disconnected,
     isBot        |-> isBot,
     lastPlay     |-> IF lastPlay # NoPlay
                      THEN [by |-> lastPlay.by, type |-> lastPlay.combo.type,
                            count |-> Len(lastPlay.cards), cards |-> lastPlay.cards]
                      ELSE [by |-> -1, type |-> "null", count |-> 0, cards |-> <<>>],
     history      |-> history,
     scores       |-> scores,
     matchNumber  |-> matchNumber,
     turn         |-> turn,
     leader       |-> leader,
     finished     |-> finished]

roomStateFor(hands, viewerIdx) ==
    [you          |-> viewerIdx,
     names        |-> names,
     hand         |-> sortHand(hands[viewerIdx]),
     counts       |-> [p \in Seats |-> Len(hands[p])],
     passed       |-> passed,
     disconnected |-> disconnected,
     isBot        |-> isBot,
     lastPlay     |-> IF lastPlay # NoPlay
                      THEN [by |-> lastPlay.by, type |-> lastPlay.combo.type,
                            count |-> Len(lastPlay.cards), cards |-> lastPlay.cards]
                      ELSE [by |-> -1, type |-> "null", count |-> 0, cards |-> <<>>],
     history      |-> history,
     scores       |-> scores,
     matchNumber  |-> matchNumber,
     turn         |-> turn,
     leader       |-> leader,
     finished     |-> finished]

(***************************************************************************)
(* A first match with three cards in each hand: three humans and a bot at  *)
(* seat 3, which holds a pair                                              *)
(***************************************************************************)
\* the four hands of a deal, each lowest card first
ThreeCardDeals ==
    {<<CardsOf(<<"3", "4", "2">>, <<"C", "D", "D">>), CardsOf(<<"3", "4", "2">>, <<"H", "S", "C">>),
       CardsOf(<<"3", "2", "2">>, <<"S", "H", "S">>), CardsOf(<<"3", "4", "4">>, <<"D", "C", "H">>)>>,
     <<CardsOf(<<"4", "4", "2">>, <<"D", "C", "D">>), CardsOf(<<"3", "4", "2">>, <<"H", "S", "C">>),
       CardsOf(<<"3", "2", "2">>, <<"S", "H", "S">>), CardsOf(<<"3", "3", "4">>, <<"D", "C", "H">>)>>,
     <<CardsOf(<<"3", "4", "2">>, <<"D", "D", "D">>), CardsOf(<<"3", "4", "2">>, <<"H", "S", "C">>),
       CardsOf(<<"3", "2", "2">>, <<"S", "H", "S">>), CardsOf(<<"3", "4", "4">>, <<"C", "C", "H">>)>>}

\* a deal in which three seats hold a triple
TripleDeals ==
    {<<CardsOf(<<"3", "3", "3">>, <<"D", "C", "H">>), CardsOf(<<"2", "2", "2">>, <<"D", "C", "H">>),
       CardsOf(<<"3", "4", "2">>, <<"S", "D", "S">>), CardsOf(<<"4", "4", "4">>, <<"C", "H", "S">>)>>}

\* the room after startGameFromWaitingRoom has dealt the hands of deal
DealtRoom(deal) ==
        LET hands      == [p \in Seats |-> deal[p + 1]]
            startIndex == StartIndexOf(hands)
        IN  /\ isBot = [p \in Seats |-> p >= 4 - NumBots]
            /\ names = [p \in Seats |-> DistinctNames[p + 1]]
            /\ socket = [p \in Seats |-> IF isBot[p] THEN -1 ELSE p]
            /\ disconnected = [p \in Seats |-> FALSE]
            /\ playerSessions = {}
            /\ disconnectTimers = [p \in Seats |-> 0]
            /\ disconnectCount = 0
            /\ elapsed = 0
            /\ NoLobby
            /\ hand = hands
            /\ passed = [p \in Seats |-> FALSE]
            /\ lastPlay = NoPlay
            /\ lastPlayType = NullCombo
            /\ turn = startIndex
            /\ leader = startIndex
            /\ firstTrick = TRUE
            /\ finished = FALSE
            /\ history = <<>>
            /\ historyLen = 0
            /\ scores = [p \in Seats |-> 0]
            /\ matchNumber = 1
            /\ enforce3D = TRUE
            /\ playedCards = {}
            /\ autoPassTimer = -1
            /\ autoPassCountdown = 0
            /\ aiTimers = IF isBot[startIndex] THEN 1 ELSE 0
            /\ matchTimers = <<>>
            /\ reply = NoReply
            /\ notice = NoNotice
            /\ engineArgs = <<>>
            /\ engineResult = NullCombo

InitBotRoom == \E deal \in ThreeCardDeals : DealtRoom(deal)

InitTripleRoom == \E deal \in ThreeCardDeals \cup TripleDeals : DealtRoom(deal)

NextBotRoom ==
    \/ \E meIdx \in Requesters : \E cardIds \in HeldIdLists(meIdx) : HandlePlay(meIdx, cardIds)
    \/ \E meIdx \in Requesters : HandlePass(meIdx)
    \/ AutoPassTick
    \/ processAITurn
    \/ startNewMatch

SpecBotRoom == InitBotRoom /\ [][NextBotRoom]_vars

SpecTripleRoom == InitTripleRoom /\ [][NextBotRoom]_vars

\* timeouts and the countdown's interval fire; no request of a human has to come
SpecBotRoomFair ==
    /\ SpecBotRoom
    /\ WF_vars(processAITurn)
    /\ WF_vars(AutoPassTick)
    /\ WF_vars(startNewMatch)

(***************************************************************************)
(* Waiting rooms: joining, starting with bots, the delayed start, leaving  *)
(***************************************************************************)
MaxWaitingRooms == 1

MaxRooms == 2

MaxStartTimers == 2

\* a player of a waiting room: a socket, or a bot (socket: null, id: `bot-${randomId()}`)
Human(s) == [id |-> s, isBot |-> FALSE]

Bot(i) == [id |-> -i, isBot |-> TRUE]

BotsIn(players) == Cardinality({i \in 1..Len(players) : players[i].isBot})

\* socketToRoom: the sockets seated in a started game room
SeatedSockets == {s \in Sockets : \E k \in 1..Len(rooms) : Human(s) \in Range(rooms[k].players)}

\* players.splice(playerIdx, 1)
Splice(players, playerIdx) ==
    [i \in 1..(Len(players) - 1) |-> IF i < playerIdx THEN players[i] ELSE players[i + 1]]

\* waitingRoom.players.findIndex(p => p.socket && p.socket.id === socket.id)
PlayerIdxOf(players, s) == MinOf({i \in 1..Len(players) : players[i] = Human(s)})

\* what the game does not touch while sockets wait
seatVars == <<isBot, roomVars, timerVars, reply, notice, names, socket, disconnected, playerSessions,
              disconnectTimers, disconnectCount, elapsed, engineVars>>

\* startGameFromWaitingRoom(waitingRoom) on the players the object now holds: the game
\* room gets one seat per player, startNewMatch deals hands[i] to seat i, the sockets
\* move to the game room and the waiting room leaves the map
StartGame(w, players, sockMap, k) ==
    LET hands == dealToFour(shuffle(makeDeck, k))
    IN  /\ rooms' = Append(rooms, [from    |-> w,
                                   players |-> players,
                                   hands   |-> [i \in 1..Len(players) |-> hands[i - 1]]])
        /\ socketToWaitingRoom' =
               [s \in Sockets |-> IF Human(s) \in Range(players) THEN 0 ELSE sockMap[s]]
        /\ waitingRooms' = waitingRooms \ {w}

\* a socket that is in no room joins: the first waiting room of the map with fewer than
\* four players, or a new one it becomes the creator of; the fourth player starts the game
enqueuePlayer(s) ==
    /\ socketToWaitingRoom[s] = 0
    /\ s \notin SeatedSockets
    /\ LET open   == {x \in waitingRooms : Len(waitingRoom[x].players) < 4}
           w      == IF open = {} THEN Len(waitingRoom) + 1 ELSE MinOf(open)
           before == IF open = {} THEN [players |-> <<>>, creator |-> s] ELSE waitingRoom[w]
           after  == [before EXCEPT !.players = Append(@, Human(s))]
       IN  /\ w <= MaxWaitingRooms
           /\ waitingRoom' = IF open = {} THEN Append(waitingRoom, after)
                                          ELSE [waitingRoom EXCEPT ![w] = after]
           /\ IF Len(after.players) = 4
              THEN /\ Len(rooms) < MaxRooms
                   /\ \E k \in 0..(ShuffleSeeds - 1) :
                        StartGame(w, after.players, [socketToWaitingRoom EXCEPT ![s] = w], k)
              ELSE /\ waitingRooms' = waitingRooms \cup {w}
                   /\ socketToWaitingRoom' = [socketToWaitingRoom EXCEPT ![s] = w]
                   /\ rooms' = rooms
    /\ UNCHANGED <<startTimers, seatVars>>

\* the creator asks to start with bots: bots fill the waiting room up to four players and
\* the start is scheduled one second later (any other request is answered with an error)
startGameWithBots(s) ==
    /\ socketToWaitingRoom[s] \in waitingRooms
    /\ waitingRoom[socketToWaitingRoom[s]].creator = s
    /\ Len(waitingRoom[socketToWaitingRoom[s]].players) # 0
    /\ Len(startTimers) < MaxStartTimers
    /\ LET w          == socketToWaitingRoom[s]
           players    == waitingRoom[w].players
           botsNeeded == 4 - Len(players)
       IN  /\ waitingRoom' = [waitingRoom EXCEPT ![w].players =
                                 players \o [i \in 1..botsNeeded |-> Bot(BotsIn(players) + i)]]
           /\ startTimers' = Append(startTimers, w)
    /\ UNCHANGED <<waitingRooms, socketToWaitingRoom, rooms, seatVars>>

\* the callback of setTimeout(() => startGameFromWaitingRoom(waitingRoom), 1000)
StartTimeout ==
    /\ startTimers # <<>>
    /\ Len(rooms) < MaxRooms
    /\ \E k \in 0..(ShuffleSeeds - 1) :
         StartGame(Head(startTimers), waitingRoom[Head(startTimers)].players,
                   socketToWaitingRoom, k)
    /\ startTimers' = Tail(startTimers)
    /\ UNCHANGED <<waitingRoom, seatVars>>

\* the player is spliced out of its waiting room, which leaves the map when it is empty
LeaveWaitingRoom(s, closed) ==
    LET w         == socketToWaitingRoom[s]
        players   == waitingRoom[w].players
        playerIdx == PlayerIdxOf(players, s)
    IN  /\ waitingRoom' = [waitingRoom EXCEPT ![w].players = Splice(players, playerIdx)]
        /\ socketToWaitingRoom' = [socketToWaitingRoom EXCEPT ![s] = IF closed THEN -1 ELSE 0]
        /\ waitingRooms' = IF Len(players) = 1 THEN waitingRooms \ {w} ELSE waitingRooms
        /\ UNCHANGED <<startTimers, rooms, seatVars>>

\* findIndex(p => p.socket.id === socket.id) reads the socket of every player before the
\* requester: the request throws when one of them is a bot
handleLeaveWaitingRoom(s) ==
    /\ socketToWaitingRoom[s] \in waitingRooms
    /\ LET players == waitingRoom[socketToWaitingRoom[s]].players
       IN  \A i \in 1..(PlayerIdxOf(players, s) - 1) : ~players[i].isBot
    /\ LeaveWaitingRoom(s, FALSE)

\* handleDisconnect of a socket in a waiting room; the closed socket (-1 in the socket
\* map of the model) sends nothing further
WaitingDisconnect(s) ==
    /\ socketToWaitingRoom[s] \in waitingRooms
    /\ LeaveWaitingRoom(s, TRUE)

InitLobby ==
    /\ NoRoom
    /\ engineArgs = <<>>
    /\ engineResult = NullCombo

NextLobby ==
    \/ \E s \in Sockets : enqueuePlayer(s)
    \/ \E s \in Sockets : startGameWithBots(s)
    \/ StartTimeout
    \/ \E s \in Sockets : handleLeaveWaitingRoom(s)
    \/ \E s \in Sockets : WaitingDisconnect(s)

SpecLobby == InitLobby /\ [][NextLobby]_vars

(***************************************************************************)
(* Vocabulary of the properties                                            *)
(***************************************************************************)
DeckIds == Range(Ids(makeDeck))

\* the newest entry of room.history
LastEntry == history[Len(history)]

\* this step accepted a play (of a human or of a bot) / a pass
PlayAccepted == reply'.op \in {"play", "aiplay"} /\ reply'.err = "ok"

PassAccepted == reply'.op \in {"pass", "aipass"} /\ reply'.err = "ok"

\* this step rejected a request of a human seat
Rejected == reply'.op \in {"play", "pass"} /\ reply'.err # "ok"

\* this step dealt a match from a pending startNewMatch timeout
Dealt == Len(matchTimers') < Len(matchTimers)

NoDuplicates(seq) == \A i, j \in 1..Len(seq) : i # j => seq[i] # seq[j]

(***************************************************************************)
(* C1. In every state of a match the four hands are pairwise disjoint,     *)
(* hold no card twice, and together with the cards already played in the   *)
(* match (room.playedCards) make up exactly the deck.                      *)
(***************************************************************************)
C1_DeckPartition ==
    /\ \A p \in Seats : NoDuplicates(Ids(hand[p]))
    /\ \A p, q \in Seats : p # q => HandIds(p) \cap HandIds(q) = {}
    /\ \A p \in Seats : HandIds(p) \cap playedCards = {}
    /\ UNION {HandIds(p) : p \in Seats} \cup playedCards = DeckIds

\* a second match in progress, after at least two plays
C1_Witness ==
    /\ matchNumber = 2
    /\ Cardinality(playedCards) >= 2
    /\ \A p \in Seats : Len(hand[p]) > 0

(***************************************************************************)
(* C2. A play or pass of a seat that does not hold the turn is rejected,   *)
(* and a rejected play or pass changes nothing of the room: hands,         *)
(* standing play, passed flags, turn, leader, scores, match number,        *)
(* first-trick flag, history and timers.                                   *)
(***************************************************************************)
C2_OutOfTurnRejected ==
    \A meIdx \in Seats \ {turn} :
        /\ PassError(meIdx) # "ok"
        /\ \A cardIds \in IdLists(meIdx) : PlayError(meIdx, cardIds) # "ok"

C2_RejectionKeepsState ==
    /\ [](C2_OutOfTurnRejected)
    /\ [][Rejected => UNCHANGED <<isBot, roomVars, timerVars>>]_vars

\* a play that does not beat the standing play has just been rejected
C2_Witness ==
    /\ reply = [op |-> "play", by |-> turn, err |-> "Does not beat previous"]
    /\ lastPlay # NoPlay
    /\ \E p \in Seats : passed[p]

(***************************************************************************)
(* C3. A play accepted while a standing play exists has as many cards as   *)
(* the standing play and beats it.                                         *)
(***************************************************************************)
C3_AcceptedPlayBeats ==
    [][PlayAccepted /\ lastPlay # NoPlay
         => /\ Len(LastEntry'.cards) = Len(lastPlay.cards)
            /\ canBeat(lastPlay.combo, classify(LastEntry'.cards))]_vars

\* a pair of the trick leader has been beaten by another seat's pair
C3_Witness ==
    /\ lastPlay # NoPlay
    /\ lastPlay.by # leader
    /\ lastPlay.combo.type = "pair"
    /\ reply.err = "ok" /\ reply.op \in {"play", "aiplay"}

(***************************************************************************)
(* C4. The cards of an accepted play are pairwise distinct, were all in    *)
(* the acting seat's hand, and the hand shrinks by exactly their number.   *)
(***************************************************************************)
C4_AcceptedCardsDistinctAndHeld ==
    [][PlayAccepted
         => /\ NoDuplicates(Ids(LastEntry'.cards))
            /\ Range(Ids(LastEntry'.cards)) \subseteq HandIds(reply'.by)
            /\ Len(hand'[reply'.by]) = Len(hand[reply'.by]) - Len(LastEntry'.cards)]_vars

(***************************************************************************)
(* C5. A pass, of a human or of a bot, is accepted only while a standing   *)
(* play exists.                                                            *)
(***************************************************************************)
C5_PassNeedsStandingPlay ==
    /\ [](PassError(turn) = "ok" => lastPlay # NoPlay)
    /\ [][PassAccepted => lastPlay # NoPlay]_vars

\* the seat that has to open the first trick of match 1 was refused a pass
C5_Witness ==
    /\ reply = [op |-> "pass", by |-> turn, err |-> "Cannot pass on a fresh trick"]
    /\ historyLen = 0

(***************************************************************************)
(* C6. The first accepted play of a room contains 3D; afterwards (later    *)
(* tricks of match 1, every trick of later matches) the 3D rule rejects    *)
(* nothing: every lead that is a legal combination of held cards is        *)
(* accepted.                                                               *)
(***************************************************************************)
LegalLead(meIdx, cardIds) ==
    LET cards == FindCards(hand[meIdx], cardIds)
    IN  Len(cards) = Len(cardIds) /\ classify(cards) # NullCombo

C6_LaterLeadsFree ==
    (historyLen > 0 /\ lastPlay = NoPlay /\ ~finished)
       => \A cardIds \in IdLists(turn) :
             LegalLead(turn, cardIds) => PlayError(turn, cardIds) = "ok"

C6_FirstLeadHas3D ==
    /\ [](C6_LaterLeadsFree)
    /\ [][/\ PlayAccepted /\ historyLen = 0 => includes3D(LastEntry'.cards)
          /\ reply'.err \in {"First play must include 3D",
                             "AI tried to play without 3D on first trick"}
                => historyLen = 0]_vars

\* the first lead of a later match was accepted without 3D, from a hand that holds 3D
C6_Witness ==
    /\ ~enforce3D
    /\ lastPlay # NoPlay
    /\ Range(Ids(lastPlay.cards)) = playedCards
    /\ ~includes3D(lastPlay.cards)
    /\ "3D" \in HandIds(lastPlay.by)

(***************************************************************************)
(* C7. At the deal of match 1 the turn and the lead are with the seat that *)
(* holds 3D; at every later deal they are with the winner of the match     *)
(* before, the seat whose hand that match emptied.                         *)
(***************************************************************************)
C7_FirstDealOpener ==
    historyLen = 0 => /\ matchNumber = 1
                      /\ turn = leader
                      /\ "3D" \in HandIds(turn)

C7_OpeningSeat ==
    /\ [](C7_FirstDealOpener)
    /\ [][Dealt => /\ turn' = leader'
                   /\ Len(hand[turn']) = 0]_vars

(***************************************************************************)
(* C8. An accepted pass after which every seat but the owner of the        *)
(* standing play is passed closes the trick in the same step: the owner    *)
(* gets the lead and the turn, no standing play is left and no seat is     *)
(* flagged passed.                                                         *)
(***************************************************************************)
C8_LastPassClosesTrick ==
    [][(/\ PassAccepted
        /\ \A p \in Seats \ {lastPlay.by, reply'.by} : passed[p])
         => /\ turn' = lastPlay.by
            /\ leader' = lastPlay.by
            /\ lastPlay' = NoPlay
            /\ lastPlayType' = NullCombo
            /\ \A p \in Seats : ~passed'[p]]_vars

\* a pass has just closed a trick: its owner leads again
C8_Witness ==
    /\ reply.op \in {"pass", "aipass"} /\ reply.err = "ok"
    /\ lastPlay = NoPlay
    /\ historyLen > 0
    /\ turn = LastEntry.by
    /\ leader = turn
    /\ reply.by # turn

(***************************************************************************)
(* C9. While a trick stays open a passed seat stays passed (a play of      *)
(* another seat does not clear its flag), and after an accepted play or    *)
(* pass that neither closes the trick nor ends the match the turn is with  *)
(* the nearest following seat, in cyclic order, that has not passed.       *)
(***************************************************************************)
\* the seat d places after p
SeatAfter(p, d) == (p + d) % 4

C9_PassedSeatsSkipped ==
    [][((PlayAccepted \/ PassAccepted)
          /\ lastPlay' # NoPlay
          /\ Len(hand'[reply'.by]) > 0)
         => /\ \A p \in Seats \ {reply'.by} : passed[p] => passed'[p]
            /\ passed'[reply'.by] = (reply'.op \in {"pass", "aipass"})
            /\ \E d \in 1..3 :
                  /\ turn' = SeatAfter(reply'.by, d)
                  /\ ~passed'[turn']
                  /\ \A e \in 1..(d - 1) : passed'[SeatAfter(reply'.by, e)]]_vars

\* after a play the turn went past a seat that had passed earlier in the trick
C9_Witness ==
    /\ reply.op \in {"play", "aiplay"} /\ reply.err = "ok"
    /\ lastPlay # NoPlay
    /\ lastPlay.by = reply.by
    /\ passed[SeatAfter(reply.by, 1)]
    /\ turn = SeatAfter(reply.by, 2)
    /\ Len(hand[reply.by]) > 0

(***************************************************************************)
(* C10. An accepted play that empties the hand of the acting seat ends the *)
(* match in the same step: the turn stays with that seat, the trick is not *)
(* closed, every other seat's score grows by the penalty of the cards it   *)
(* holds at that moment, the winner's score stays, and the game is over or *)
(* the next match is scheduled with the winner to open.                    *)
(***************************************************************************)
C10_EmptyHandEndsMatch ==
    [][(PlayAccepted /\ Len(hand'[reply'.by]) = 0)
         => /\ turn' = turn
            /\ turn' = reply'.by
            /\ leader' = leader
            /\ lastPlay' # NoPlay /\ lastPlay'.by = reply'.by
            /\ \A p \in Seats \ {reply'.by} : passed'[p] = passed[p]
            /\ scores'[reply'.by] = scores[reply'.by]
            /\ \A p \in Seats \ {reply'.by} :
                  scores'[p] = scores[p] + penaltyPoints(Len(hand[p]))
            /\ \/ finished' /\ matchTimers' = matchTimers
               \/ /\ ~finished'
                  /\ matchNumber' = matchNumber + 1
                  /\ matchTimers' = Append(matchTimers, reply'.by)]_vars

\* a play has just emptied a hand while a seat that passed in the trick is still
\* flagged: the next match is scheduled and the other seats have been charged
C10_Witness ==
    /\ reply.op \in {"play", "aiplay"} /\ reply.err = "ok"
    /\ Len(hand[reply.by]) = 0
    /\ turn = reply.by
    /\ lastPlay # NoPlay /\ lastPlay.by = reply.by
    /\ \E p \in Seats : passed[p]
    /\ matchTimers # <<>>
    /\ \A p \in Seats \ {reply.by} : scores[p] > 0

(***************************************************************************)
(* C11. The penalty of n remaining cards is 0 for n = 0, n for 1..4, 2n    *)
(* for 5..9 and 3n for 10..13, and the play that ends a match leaves the   *)
(* winner's score and adds to every other seat's score the penalty of the  *)
(* cards it holds.                                                         *)
(***************************************************************************)
PenaltyTable == <<0, 1, 2, 3, 4, 10, 12, 14, 16, 18, 30, 33, 36, 39>>

\* this step accepted the play that emptied the hand of its seat
MatchEnded == PlayAccepted /\ Len(hand'[reply'.by]) = 0

C11_PenaltyValues == \A n \in 0..13 : penaltyPoints(n) = PenaltyTable[n + 1]

C11_PenaltiesCharged ==
    /\ [](C11_PenaltyValues)
    /\ [][MatchEnded
            => /\ scores'[reply'.by] = scores[reply'.by]
               /\ \A p \in Seats \ {reply'.by} :
                     scores'[p] = scores[p] + PenaltyTable[Len(hand[p]) + 1]]_vars

\* a match has ended with losers holding 13, 9 and 5 cards: 39, 18 and 10 points
C11_Witness ==
    /\ reply.op \in {"play", "aiplay"} /\ reply.err = "ok"
    /\ Len(hand[reply.by]) = 0
    /\ \E p, q, r \in Seats :
          /\ Len(hand[p]) = 13 /\ scores[p] = 39
          /\ Len(hand[q]) = 9 /\ scores[q] = 18
          /\ Len(hand[r]) = 5 /\ scores[r] = 99 + 10

(***************************************************************************)
(* C13. The champion reported at game over is the lowest-indexed seat      *)
(* whose cumulative score is the minimum of the four scores.               *)
(***************************************************************************)
C13_ChampionFirstLowest ==
    notice.type = "gameOver"
       => /\ notice.champion \in Seats
          /\ \A p \in Seats : scores[notice.champion] <= scores[p]
          /\ \A p \in 0..(notice.champion - 1) : scores[p] > scores[notice.champion]

\* game over with two seats tied on the lowest score, neither of them the seat
\* that won the last match
C13_Witness ==
    /\ notice.type = "gameOver"
    /\ finished
    /\ \E p, q \in Seats :
          /\ p < q
          /\ scores[p] = scores[q]
          /\ \A r \in Seats : scores[p] <= scores[r]
          /\ notice.champion = p
          /\ Len(hand[p]) > 0 /\ Len(hand[q]) > 0

(***************************************************************************)
(* C12. The play that ends a match ends the game exactly when it takes     *)
(* some score above 100 (a score of 100 does not); the game once over, no  *)
(* match is dealt any more; otherwise matchNumber grows by one and exactly *)
(* one match is dealt, opened by the winner and without the 3D rule.       *)
(***************************************************************************)
C12_GameOverAbove100 ==
    /\ [](Len(matchTimers) <= 1)
    /\ [][/\ MatchEnded
              => /\ finished' = (\E p \in Seats : scores'[p] > 100)
                 /\ finished' => /\ matchNumber' = matchNumber
                                 /\ matchTimers' = matchTimers
                 /\ ~finished' => /\ matchNumber' = matchNumber + 1
                                  /\ matchTimers' = Append(matchTimers, reply'.by)
          /\ Dealt => /\ ~finished
                      /\ ~enforce3D'
                      /\ turn' = Head(matchTimers)
                      /\ leader' = Head(matchTimers)]_vars

(***************************************************************************)
(* C14. A human seat disconnecting during a match changes nothing of the   *)
(* match but the disconnected flag of that seat and the start of its grace *)
(* timer: hands, standing play, passed flags, turn, leader, scores and     *)
(* matchNumber stay, and the match is not ended.                           *)
(***************************************************************************)
DisconnectedNow(p) == reply'.op = "disconnect" /\ reply'.by = p

C14_DisconnectFrame ==
    [][\A p \in Seats :
         DisconnectedNow(p)
           => /\ UNCHANGED <<isBot, roomVars, timerVars, notice, names, elapsed>>
              /\ ~finished'
              /\ disconnected'[p]
              /\ disconnectTimers'[p] > elapsed'
              /\ \A q \in Seats \ {p} : /\ disconnected'[q] = disconnected[q]
                                         /\ disconnectTimers'[q] = disconnectTimers[q]]_vars

\* a seat has just disconnected while it holds the turn and a play stands
C14_Witness ==
    /\ reply.op = "disconnect"
    /\ turn = reply.by
    /\ lastPlay # NoPlay
    /\ lastPlay.by # turn
    /\ Len(hand[turn]) > 0

(***************************************************************************)
(* C15. A reconnection request of a disconnected seat, made with the name  *)
(* of the seat before the end of its grace period while the match runs,    *)
(* makes the seat connected again with hands, turn and standing play as    *)
(* they are, and cancels its grace timer; a match is only aborted for a    *)
(* seat that is disconnected and whose running grace period has ended.     *)
(***************************************************************************)
ReconnectRequest(p) == reply'.op = "reconnect" /\ reply'.by = p

Aborted == ~finished /\ finished' /\ notice'.type = "gameAborted"

C15_ReconnectInTime ==
    [][/\ \A p \in Seats :
            ReconnectRequest(p) /\ disconnected[p] /\ disconnectTimers[p] > elapsed /\ RoomExists
              => /\ reply'.err = "ok"
                 /\ ~disconnected'[p]
                 /\ disconnectTimers'[p] = 0
                 /\ UNCHANGED <<isBot, roomVars, timerVars>>
       /\ Aborted => \E p \in Seats : /\ reply'.op = "graceTimeout" /\ reply'.by = p
                                      /\ disconnected[p]
                                      /\ disconnectTimers[p] \in 1..elapsed]_vars

(***************************************************************************)
(* C16. When the grace period of a seat ends with the seat still           *)
(* disconnected and holding the turn, the match is aborted: the room is    *)
(* finished (and removed), the abort notice goes to the other connected    *)
(* seats, and afterwards no play, pass or reconnection is accepted; a seat *)
(* is never reconnected at or after the end of its grace period.           *)
(***************************************************************************)
GraceTimeout(p) == reply'.op = "graceTimeout" /\ reply'.by = p

C16_AbortOnExpiry ==
    [][/\ \A p \in Seats :
            GraceTimeout(p) /\ disconnected[p] /\ RoomExists /\ turn = p
              => /\ finished'
                 /\ ~RoomExists'
                 /\ notice'.type = "gameAborted"
                 /\ notice'.to = {q \in Seats \ {p} : ~isBot[q] /\ ~disconnected[q]}
       /\ notice.type = "gameAborted"
            => /\ ~PlayAccepted
               /\ ~PassAccepted
               /\ ~(reply'.op = "reconnect" /\ reply'.err = "ok")
               /\ disconnected' = disconnected
               /\ finished'
       /\ \A p \in Seats :
            disconnected[p] /\ disconnectTimers[p] \in 1..elapsed => disconnected'[p]]_vars

\* the match was aborted for a seat that held the turn, another seat is still
\* disconnected, and its reconnection request has just been refused
C16_Witness ==
    /\ notice.type = "gameAborted"
    /\ finished
    /\ disconnected[turn]
    /\ notice.to # {}
    /\ reply.op = "reconnect"
    /\ reply.err = "Game has ended"

(***************************************************************************)
(* C17. A think-time timeout that fires after the state it was set for has *)
(* been superseded causes no play and no pass: when a bot acts, the        *)
(* timeout that fires is the one set for its current turn, so no older     *)
(* timeout is pending at that moment.                                      *)
(***************************************************************************)
AIActed == reply'.op \in {"aiplay", "aipass"} /\ reply'.err = "ok"

C17_StaleThinkTimerNoOp == [][AIActed => aiTimers = 1]_vars

(***************************************************************************)
(* C18. The auto-pass countdown runs only while the play that started it   *)
(* stands, owned by the exempt seat, in a match that has not ended: an     *)
(* accepted play cancels it or replaces it by its own, a trick closure, a  *)
(* match end and a deal cancel it; when it expires the trick closes with   *)
(* the exempt seat as turn and leader and every passed flag cleared.       *)
(***************************************************************************)
CountdownExpired ==
    /\ autoPassTimer # -1
    /\ autoPassCountdown = 1
    /\ reply' = NoReply
    /\ ~Dealt
    /\ autoPassCountdown' = 0

C18_CountdownOwnedByStandingPlay ==
    /\ [](autoPassTimer # -1 => /\ lastPlay # NoPlay
                                /\ lastPlay.by = autoPassTimer
                                /\ autoPassCountdown \in 1..CountdownStart
                                /\ ~finished)
    /\ [][/\ PlayAccepted => autoPassTimer' \in {-1, reply'.by}
          /\ MatchEnded \/ Dealt \/ lastPlay' = NoPlay => autoPassTimer' = -1
          /\ CountdownExpired => /\ turn' = autoPassTimer
                                 /\ leader' = autoPassTimer
                                 /\ lastPlay' = NoPlay
                                 /\ autoPassTimer' = -1
                                 /\ \A p \in Seats : ~passed'[p]]_vars

\* the countdown is in its last second: the exempt seat owns the standing play and
\* waits, one other seat has passed by itself and another has not passed yet
C18_Witness ==
    /\ autoPassTimer # -1
    /\ autoPassCountdown = 1
    /\ lastPlay # NoPlay
    /\ lastPlay.by = autoPassTimer
    /\ turn # autoPassTimer
    /\ \E p, q \in Seats \ {autoPassTimer} : passed[p] /\ ~passed[q]

(***************************************************************************)
(* C19. classify answers every list of 1, 2, 3 or 5 cards with one of the  *)
(* eight combination types or with invalid, and gives the same type and    *)
(* key whatever the order of the cards.                                    *)
(***************************************************************************)
ComboTypes ==
    {"single", "pair", "triple", "straight", "flush", "fullhouse", "fourkind", "straightflush"}

C19_ClassifyOrderFree ==
    /\ [](/\ Len(engineArgs) \in {1, 2, 3, 5}
          /\ DOMAIN engineResult = {"type", "key"}
          /\ engineResult.type \in ComboTypes \cup {"null"}
          /\ engineResult.key \in Nat
          /\ engineResult.type = "null" => engineResult = NullCombo)
    /\ [][engineResult' = engineResult]_vars

\* a full house whose cards were given pair first, out of hand order
C19_Witness ==
    /\ engineResult.type = "fullhouse"
    /\ engineArgs # sortHand(engineArgs)
    /\ engineArgs[1].r # engineArgs[3].r
    /\ engineArgs[5].r = RANKS[1]

(***************************************************************************)
(* C20. Five cards are a straight or a straight flush exactly when their   *)
(* ranks are five different ranks that make one of the ten runs from       *)
(* A-2-3-4-5 (index 0) to 10-J-Q-K-A (index 9), the index being the key    *)
(* without its suit digit; J-Q-K-A-2, Q-K-A-2-3 and K-A-2-3-4 are not.     *)
(***************************************************************************)
\* the ranks in running order, the ace at both ends
RunOrder == <<"A", "2", "3", "4", "5", "6", "7", "8", "9", "10", "J", "Q", "K", "A">>

Window(idx) == {RunOrder[idx + k] : k \in 1..5}

Wraps == {{"J", "Q", "K", "A", "2"}, {"Q", "K", "A", "2", "3"}, {"K", "A", "2", "3", "4"}}

RanksOf(cards) == {cards[i].r : i \in 1..Len(cards)}

C20_TenStraightWindows ==
    Len(engineArgs) = 5 =>
        /\ engineResult.type \in {"straight", "straightflush"}
              <=> \E idx \in 0..9 : RanksOf(engineArgs) = Window(idx)
        /\ \A idx \in 0..9 :
              RanksOf(engineArgs) = Window(idx) => engineResult.key \div 10 = idx
        /\ RanksOf(engineArgs) \in Wraps
              => engineResult.type \notin {"straight", "straightflush"}

\* the lowest run, given out of order, is a straight of index 0
C20_Witness ==
    /\ RanksOf(engineArgs) = {"A", "2", "3", "4", "5"}
    /\ engineResult.type = "straight"
    /\ engineResult.key \div 10 = 0
    /\ engineArgs[1].r = "5"

(***************************************************************************)
(* C30. The end of the grace period of a seat that is still disconnected   *)
(* aborts the match only when that seat holds the turn: an expiry during   *)
(* the turn of another seat leaves the match running.                      *)
(***************************************************************************)
C30_AbortOnlyOnTurn ==
    [][\A p \in Seats :
         GraceTimeout(p) /\ disconnected[p] /\ RoomExists /\ turn # p
           => /\ ~finished'
              /\ notice'.type # "gameAborted"]_vars

\* C30 as the code has it: the end of the grace period of a seat that is still
\* disconnected aborts the match of an existing room whatever seat holds the turn,
\* and the match is aborted by nothing else.
C30_AbortWhateverTurn ==
    [][/\ \A p \in Seats :
            GraceTimeout(p) /\ disconnected[p] /\ RoomExists
              => finished' /\ notice'.type = "gameAborted"
       /\ Aborted => \E p \in Seats : GraceTimeout(p) /\ disconnected[p]]_vars

\* the match has just been aborted for a seat during the turn of a connected seat
C30_Witness ==
    /\ reply.op = "graceTimeout"
    /\ notice.type = "gameAborted"
    /\ finished
    /\ turn # reply.by
    /\ ~disconnected[turn]
    /\ disconnected[reply.by]

(***************************************************************************)
(* C21. Five different cards get the first category that fits, in the      *)
(* order straightflush, fourkind, fullhouse, flush, straight, else         *)
(* invalid; the key is run index then suit of the top card of the run for  *)
(* straight and straightflush, the rank of the four for fourkind, the rank *)
(* of the three for fullhouse, suit then highest rank for flush. One card  *)
(* is a single; two or three cards are a pair or a triple when of one      *)
(* rank and invalid otherwise.                                             *)
(***************************************************************************)
OneSuit(cards) == \A i \in 1..Len(cards) : cards[i].s = cards[1].s

IsRun(cards) == \E idx \in 0..9 : RanksOf(cards) = Window(idx)

RunIndex(cards) == CHOOSE idx \in 0..9 : RanksOf(cards) = Window(idx)

\* the suit of the card that ends the run
RunTopSuit(cards) ==
    SUIT_VALUE((CHOOSE c \in Range(cards) : c.r = RunOrder[RunIndex(cards) + 5]).s)

RankTimes(cards, n) ==
    {r \in RanksOf(cards) : Cardinality({c \in Range(cards) : c.r = r}) = n}

\* the highest rank among the cards, 2 high
HighestRank(cards) ==
    CHOOSE v \in 0..12 : /\ \E c \in Range(cards) : RANK_VALUE(c.r) = v
                         /\ \A c \in Range(cards) : RANK_VALUE(c.r) <= v

ExpectedFive(cards) ==
    IF OneSuit(cards) /\ IsRun(cards)
    THEN [type |-> "straightflush", key |-> RunIndex(cards) * 10 + RunTopSuit(cards)]
    ELSE IF RankTimes(cards, 4) # {}
    THEN [type |-> "fourkind", key |-> RANK_VALUE(CHOOSE r \in RankTimes(cards, 4) : TRUE)]
    ELSE IF RankTimes(cards, 3) # {} /\ RankTimes(cards, 2) # {}
    THEN [type |-> "fullhouse", key |-> RANK_VALUE(CHOOSE r \in RankTimes(cards, 3) : TRUE)]
    ELSE IF OneSuit(cards)
    THEN [type |-> "flush", key |-> SUIT_VALUE(cards[1].s) * 100 + HighestRank(cards)]
    ELSE IF IsRun(cards)
    THEN [type |-> "straight", key |-> RunIndex(cards) * 10 + RunTopSuit(cards)]
    ELSE NullCombo

C21_ClassifyByCategory ==
    NoDuplicates(engineArgs) =>
        /\ Len(engineArgs) = 1 => engineResult.type = "single"
        /\ Len(engineArgs) = 2 =>
              engineResult.type = IF Cardinality(RanksOf(engineArgs)) = 1 THEN "pair" ELSE "null"
        /\ Len(engineArgs) = 3 =>
              engineResult.type = IF Cardinality(RanksOf(engineArgs)) = 1 THEN "triple" ELSE "null"
        /\ Len(engineArgs) = 5 => engineResult = ExpectedFive(engineArgs)

\* a run in one suit, handed over out of order, is a straight flush and not a flush
C21_Witness ==
    /\ Len(engineArgs) = 5
    /\ NoDuplicates(engineArgs)
    /\ OneSuit(engineArgs)
    /\ RanksOf(engineArgs) = Window(9)
    /\ engineArgs[1].r = "A"
    /\ engineResult = [type |-> "straightflush", key |-> 90]

(***************************************************************************)
(* C22. On legal combinations of one size canBeat is a strict order: no    *)
(* combination beats itself, no two beat each other, and beating is        *)
(* transitive. Among five-card combinations the category straight < flush  *)
(* < fullhouse < fourkind < straightflush decides first and the key only   *)
(* within one category; a single beats a single of lower (rank, suit).     *)
(***************************************************************************)
Category(t) ==
    CHOOSE n \in 1..5 :
        <<"straight", "flush", "fullhouse", "fourkind", "straightflush">>[n] = t

\* what the claim says canBeat(prev, next) is for two plays of the same size
ExpectedBeat(prevCards, prev, nextCards, next) ==
    IF Len(prevCards) = 5
    THEN \/ Category(prev.type) < Category(next.type)
         \/ Category(prev.type) = Category(next.type) /\ prev.key < next.key
    ELSE IF Len(prevCards) = 1
    THEN \/ RANK_VALUE(prevCards[1].r) < RANK_VALUE(nextCards[1].r)
         \/ /\ prevCards[1].r = nextCards[1].r
            /\ SUIT_VALUE(prevCards[1].s) < SUIT_VALUE(nextCards[1].s)
    ELSE prev.key < next.key

C22_CanBeatStrictOrder ==
    engineResult # NullCombo =>
        /\ ~engineResult.xx
        /\ ~(engineResult.xy /\ engineResult.yx)
        /\ engineResult.xy /\ engineResult.yz => engineResult.xz
        /\ engineResult.xy = ExpectedBeat(engineArgs[1], engineResult.x,
                                          engineArgs[2], engineResult.y)
        /\ engineResult.yz = ExpectedBeat(engineArgs[2], engineResult.y,
                                          engineArgs[3], engineResult.z)

\* a full house of nines is beaten by four fours, which a straight does not beat
C22_Witness ==
    /\ engineResult # NullCombo
    /\ engineResult.x = [type |-> "fullhouse", key |-> 6]
    /\ engineResult.y = [type |-> "fourkind", key |-> 1]
    /\ engineResult.z.type = "straight"
    /\ engineResult.xy
    /\ ~engineResult.yx
    /\ ~engineResult.yz
    /\ ~engineResult.xz

(***************************************************************************)
(* C23. Two legal combinations of the same type made of different cards of *)
(* one deck never have the same key: exactly one of them beats the other.  *)
(***************************************************************************)
C23_DisjointKeysDiffer ==
    engineResult # NullCombo /\ engineResult.x.type = engineResult.y.type =>
        /\ engineResult.x.key # engineResult.y.key
        /\ engineResult.xy # engineResult.yx

\* two straights of one window, made of different cards, were compared
C23_Witness ==
    /\ engineResult # NullCombo
    /\ engineResult.x.type = "straight"
    /\ engineResult.y.type = "straight"
    /\ engineResult.x.key \div 10 = engineResult.y.key \div 10
    /\ engineResult.xy

(***************************************************************************)
(* C25. Answering a standing play, a bot passes exactly when its hand      *)
(* holds no legal combination of as many cards as the standing play that   *)
(* beats it; otherwise it plays one of those combinations.                 *)
(***************************************************************************)
\* the selections of n cards of the hand, in hand order, that beat the cards prev
BeatingPlays(handCards, prev) ==
    {CardsAt(handCards, t) : t \in
        {u \in IndexTuples(Len(handCards), Len(prev)) :
            /\ classify(CardsAt(handCards, u)) # NullCombo
            /\ canBeat(classify(prev), classify(CardsAt(handCards, u)))}}

C25_PassIffNothingBeats ==
    engineResult # NullCombo /\ Len(engineArgs.lastPlay) > 0 =>
        IF BeatingPlays(engineArgs.hand, engineArgs.lastPlay) = {}
        THEN engineResult.play = <<>>
        ELSE engineResult.play \in BeatingPlays(engineArgs.hand, engineArgs.lastPlay)

\* the bot answered a pair of jacks with its pair of queens
C25_Witness ==
    /\ engineResult # NullCombo
    /\ Ids(engineArgs.lastPlay) = <<"JC", "JH">>
    /\ Ids(engineResult.play) = <<"QD", "QS">>

(***************************************************************************)
(* C26. On a fresh trick a bot leads the lowest-strength legal five-card   *)
(* combination of its hand when there is one, otherwise its lowest-        *)
(* strength pair, otherwise its single lowest card.                        *)
(***************************************************************************)
\* the legal combinations of n cards of the hand, in hand order
PlaysOfSize(handCards, n) ==
    {CardsAt(handCards, t) : t \in
        {u \in IndexTuples(Len(handCards), n) : classify(CardsAt(handCards, u)) # NullCombo}}

\* play is one of plays and beats none of them
LowestOf(play, plays) ==
    /\ play \in plays
    /\ \A c \in plays : ~canBeat(classify(c), classify(play))

C26_LeadsLowest ==
    engineResult # NullCombo /\ Len(engineArgs.lastPlay) = 0 =>
        IF PlaysOfSize(engineArgs.hand, 5) # {}
        THEN LowestOf(engineResult.play, PlaysOfSize(engineArgs.hand, 5))
        ELSE IF PlaysOfSize(engineArgs.hand, 2) # {}
        THEN LowestOf(engineResult.play, PlaysOfSize(engineArgs.hand, 2))
        ELSE LowestOf(engineResult.play, PlaysOfSize(engineArgs.hand, 1))

(***************************************************************************)
(* C27. Answering a standing play that it can beat, a bot plays its        *)
(* strongest beating combination when the smallest hand among the three    *)
(* other seats has at most 3 cards, its weakest one when that hand has     *)
(* more than 5 cards, and a beating combination (the middle or the weakest *)
(* one) when it has 4 or 5.                                                *)
(***************************************************************************)
\* the smallest hand size among the seats other than the bot's
MinOpponentCards(counts) == MinOf({counts[i] : i \in {k \in 1..Len(counts) : counts[k] # -1}})

\* play is one of plays and none of them beats it
HighestOf(play, plays) ==
    /\ play \in plays
    /\ \A c \in plays : ~canBeat(classify(play), classify(c))

C27_StrengthByOpponentCards ==
    (/\ engineResult # NullCombo
     /\ Len(engineArgs.lastPlay) > 0
     /\ BeatingPlays(engineArgs.hand, engineArgs.lastPlay) # {}) =>
        IF MinOpponentCards(engineArgs.allPlayerCounts) <= 3
        THEN HighestOf(engineResult.play, BeatingPlays(engineArgs.hand, engineArgs.lastPlay))
        ELSE IF MinOpponentCards(engineArgs.allPlayerCounts) > 5
        THEN LowestOf(engineResult.play, BeatingPlays(engineArgs.hand, engineArgs.lastPlay))
        ELSE engineResult.play \in BeatingPlays(engineArgs.hand, engineArgs.lastPlay)

(***************************************************************************)
(* C24. A play applied for a bot meets the conditions of a human's play:   *)
(* the bot holds the turn, the cards are in its hand, they form a legal    *)
(* combination, they include 3D when the first lead must, and they are as  *)
(* many as the cards of the standing play and beat it when there is one.   *)
(***************************************************************************)
AIPlayApplied == reply'.op = "aiplay" /\ reply'.err = "ok"

C24_BotPlaysAsHumans ==
    [][AIPlayApplied =>
         /\ reply'.by = turn
         /\ isBot[turn]
         /\ Range(LastEntry'.cards) \subseteq Range(hand[turn])
         /\ NoDuplicates(LastEntry'.cards)
         /\ classify(LastEntry'.cards) # NullCombo
         /\ firstTrick /\ lastPlay = NoPlay /\ enforce3D => includes3D(LastEntry'.cards)
         /\ lastPlay # NoPlay =>
               /\ Len(LastEntry'.cards) = Len(lastPlay.cards)
               /\ canBeat(lastPlay.combo, classify(LastEntry'.cards))
         /\ PlayError(turn, Ids(LastEntry'.cards)) = "ok"]_vars

\* the bot opened the first match with a pair on 3D
C24_Witness ==
    /\ reply = [op |-> "aiplay", by |-> 3, err |-> "ok"]
    /\ historyLen = 1
    /\ matchNumber = 1
    /\ Ids(LastEntry.cards) = <<"3D", "3C">>

(***************************************************************************)
(* C28. Whenever a bot holds the turn in a room that is not finished, the  *)
(* bot eventually makes an accepted play or pass (or the turn leaves it):  *)
(* the turn never stays with a bot that has no think-time timeout pending. *)
(***************************************************************************)
\* a bot is to act, and no bound of the model stands in the way of its play
BotToAct == isBot[turn] /\ ~finished /\ historyLen < MaxHistory

BotActed == reply.op \in {"aiplay", "aipass"} /\ reply.err = "ok"

C28_BotEventuallyActs == BotToAct ~> (BotActed \/ ~isBot[turn] \/ finished)

(***************************************************************************)
(* C29. The state payload for a seat holds that seat's own hand and, of    *)
(* the other seats, only counts, flags and cards already played: two rooms *)
(* that differ only in which unplayed cards the other seats hold give the  *)
(* viewer the same payload.                                                *)
(***************************************************************************)
\* the hands after seats a and b exchange their cards at positions i and j
Exchanged(a, i, b, j) ==
    [p \in Seats |->
        IF p = a THEN [k \in 1..Len(hand[a]) |-> IF k = i THEN hand[b][j] ELSE hand[a][k]]
        ELSE IF p = b THEN [k \in 1..Len(hand[b]) |-> IF k = j THEN hand[a][i] ELSE hand[b][k]]
        ELSE hand[p]]

C29_ViewerSeesOwnHandOnly ==
    \A viewerIdx \in Seats :
        /\ roomStateFor(hand, viewerIdx).hand = sortHand(hand[viewerIdx])
        /\ \A a \in Seats \ {viewerIdx}, b \in Seats \ {viewerIdx} :
              \A i \in 1..Len(hand[a]), j \in 1..Len(hand[b]) :
                 a # b => roomStateFor(Exchanged(a, i, b, j), viewerIdx)
                            = roomStateFor(hand, viewerIdx)

\* seat 0 looks at a trick in progress while seats 1 and 2 hold cards of different ranks
C29_Witness ==
    /\ lastPlay # NoPlay
    /\ ~isBot[0]
    /\ Len(hand[0]) > 0
    /\ Len(hand[1]) > 0
    /\ Len(hand[2]) > 1
    /\ hand[1][1].r # hand[2][2].r
    /\ Exchanged(1, 1, 2, 2) # hand
    /\ roomStateFor(Exchanged(1, 1, 2, 2), 0) = roomStateFor(hand, 0)

(***************************************************************************)
(* C31. A bot that opens the first match holds 3D, and the combination its *)
(* decision procedure chooses for that lead contains 3D, also when the     *)
(* hand holds a pair or a five-card combination made of other cards.       *)
(***************************************************************************)
C31_BotLeadHas3D ==
    (/\ engineResult # NullCombo
     /\ Len(engineArgs.lastPlay) = 0
     /\ includes3D(engineArgs.hand)) => includes3D(engineResult.play)

(***************************************************************************)
(* C32. Between the end of a match (a hand became empty) and the deal of   *)
(* the next one no play and no pass is accepted: each match is scored      *)
(* once and at most one deal is pending.                                   *)
(***************************************************************************)
C32_NoMoveBeforeDeal ==
    /\ [](Len(matchTimers) <= 1)
    /\ [][PlayAccepted \/ PassAccepted => matchTimers = <<>>]_vars

(***************************************************************************)
(* C33. Once a room is finished (game over, or aborted when a grace period *)
(* expired) its state never changes again: no hand is dealt and no turn,   *)
(* score or match number changes, whatever timer fires afterwards.         *)
(***************************************************************************)
C33_FinishedRoomFrozen ==
    [][finished =>
         /\ finished'
         /\ UNCHANGED <<hand, passed, lastPlay, lastPlayType, turn, leader, firstTrick,
                        history, scores, matchNumber, enforce3D, playedCards>>]_vars

(***************************************************************************)
(* C34. In an ongoing match with no standing play no seat is flagged       *)
(* passed and the turn is the leader's.                                    *)
(***************************************************************************)
\* the room is not finished and no hand is empty
OngoingMatch == ~finished /\ \A p \in Seats : Len(hand[p]) > 0

C34_AwaitingLead ==
    OngoingMatch /\ lastPlay = NoPlay =>
        /\ \A p \in Seats : ~passed[p]
        /\ turn = leader

\* the last pass closed a trick while every seat still holds cards
C34_Witness ==
    /\ OngoingMatch
    /\ lastPlay = NoPlay
    /\ historyLen > 0
    /\ reply.op = "pass"
    /\ reply.err = "ok"
    /\ turn # reply.by

(***************************************************************************)
(* C35. In an ongoing match with a standing play the seat holding the turn *)
(* is not the owner of the standing play, is not flagged passed and holds  *)
(* cards, and the owner of the standing play is not flagged passed.        *)
(***************************************************************************)
C35_AwaitingResponse ==
    OngoingMatch /\ lastPlay # NoPlay =>
        /\ turn # lastPlay.by
        /\ ~passed[turn]
        /\ Len(hand[turn]) > 0
        /\ ~passed[lastPlay.by]

\* a seat answered a standing play after another seat had passed on it
C35_Witness ==
    /\ OngoingMatch
    /\ lastPlay # NoPlay
    /\ historyLen >= 2
    /\ reply.op = "play"
    /\ reply.err = "ok"
    /\ \E p \in Seats : passed[p]

(***************************************************************************)
(* C36. At game over the champion is not a seat whose score is above 100:  *)
(* the winner of the final match has at most 100. Scores never decrease.   *)
(***************************************************************************)
C36_ChampionNotBusted ==
    /\ [](notice.type = "gameOver" =>
            /\ scores[notice.champion] <= BustLimit
            /\ notice.champion \notin notice.busted
            /\ \E p \in Seats : scores[p] <= BustLimit)
    /\ [][/\ \A p \in Seats : scores'[p] >= scores[p]
          /\ notice'.type = "gameOver" /\ notice.type # "gameOver"
                => scores'[reply'.by] <= BustLimit /\ Len(hand'[reply'.by]) = 0]_vars

\* the game is over with three seats above 100
C36_Witness ==
    /\ notice.type = "gameOver"
    /\ finished
    /\ Cardinality(notice.busted) = 3
    /\ notice.busted = {p \in Seats : scores[p] > BustLimit}

(***************************************************************************)
(* C37. A play flagged as the highest unplayed single, pair or triple      *)
(* cannot be beaten: no other seat holds a combination of as many cards    *)
(* that beats it, when it is made and as long as its countdown runs.       *)
(***************************************************************************)
\* no seat but the owner holds cards that beat the cards played
Unbeatable(hands, owner, cards) ==
    \A p \in Seats \ {owner} : BeatingPlays(hands[p], cards) = {}

C37_FlaggedPlayUnbeatable ==
    /\ [](autoPassTimer # -1 /\ lastPlay # NoPlay
            => Unbeatable(hand, lastPlay.by, lastPlay.cards))
    /\ [][PlayAccepted /\ NoDuplicates(LastEntry'.cards)
             /\ checkHighestCardPlayed(playedCards, LastEntry'.cards,
                                        classify(LastEntry'.cards))
            => Unbeatable(hand', reply'.by, LastEntry'.cards)]_vars

\* the countdown runs for the pair 2H 2S while the other seats hold cards
C37_Witness ==
    /\ autoPassTimer # -1
    /\ lastPlay # NoPlay
    /\ lastPlay.combo.type = "pair"
    /\ OngoingMatch


\* C38: every started game room has four seats with a full hand each, and no waiting room
\* has started more than one game
C38_FourSeatsOneGame ==
    /\ \A k \in 1..Len(rooms) :
         /\ Len(rooms[k].players) = 4
         /\ \A i \in 1..Len(rooms[k].hands) : Len(rooms[k].hands[i]) = DeckSize \div 4
    /\ \A k, m \in 1..Len(rooms) : rooms[k].from = rooms[m].from => k = m


(***************************************************************************)
(* C39. A reconnection request that succeeds rebinds exactly the seat of   *)
(* the person who sent it, the connection of a person is bound to at most  *)
(* one connected seat, a disconnected seat whose grace period runs is      *)
(* resumed by the request of its own person (also when names are shared or *)
(* several seats are disconnected), and a request from a seated connection *)
(* under the name of another seat never succeeds.                          *)
(***************************************************************************)
LiveHumans == {p \in Seats : ~isBot[p] /\ ~disconnected[p]}

C39_RebindOwnSeat ==
    /\ [](\A a, b \in LiveHumans : socket[a] = socket[b] => a = b)
    /\ [][/\ \A p \in Seats :
               ReconnectRequest(p) /\ reply'.err = "ok"
                 => /\ socket' = [socket EXCEPT ![p] = p]
                    /\ disconnected' = [disconnected EXCEPT ![p] = FALSE]
          /\ \A p \in Seats :
               ReconnectRequest(p) /\ disconnected[p] /\ disconnectTimers[p] > elapsed
                                   /\ RoomExists
                 => reply'.err = "ok"
          /\ reply'.op = "takeover" => reply'.err # "ok"]_vars

(***************************************************************************)
(* C40. While seats act: a trick that closes has taken the cards of its    *)
(* standing play out of the hands, a play on a standing play is strictly   *)
(* higher, and a seat that passed stays passed while the play stands; and  *)
(* if every seat that holds the turn of a running match gives it up again  *)
(* (by a play or a pass), every running match comes to an empty hand. The  *)
(* model follows a match for MaxHistory plays.                             *)
(***************************************************************************)
InHorizon == historyLen < MaxHistory

TrickClosed == lastPlay # NoPlay /\ lastPlay' = NoPlay /\ ~Dealt

\* the seat that holds the turn of a running match eventually plays or passes: it does
\* not hold the turn of a running match for ever
HolderActs(p) == []<>~(turn = p /\ OngoingMatch /\ InHorizon)

C40_MatchEnds ==
    /\ [][/\ TrickClosed
               => /\ Len(lastPlay.cards) >= 1
                  /\ \A q \in Seats : Range(Ids(lastPlay.cards)) \cap HandIds(q) = {}
          /\ PlayAccepted /\ lastPlay # NoPlay
               => /\ canBeat(lastPlay.combo, classify(LastEntry'.cards))
                  /\ ~canBeat(classify(LastEntry'.cards), lastPlay.combo)
          /\ lastPlay # NoPlay /\ lastPlay' # NoPlay /\ ~Dealt
               => \A q \in Seats : passed[q] => passed'[q]]_vars
    /\ (\A p \in Seats : HolderActs(p))
         => ((OngoingMatch /\ InHorizon) ~> (~InHorizon \/ \E q \in Seats : Len(hand[q]) = 0))

\* a trick closed after three passes, and the leader then played its last cards
C40_Witness ==
    /\ \E q \in Seats : Len(hand[q]) = 0
    /\ lastPlay # NoPlay
    /\ Len(hand[lastPlay.by]) = 0
    /\ lastPlay.by = leader
    /\ historyLen >= 2
    /\ ~firstTrick

====
